---- MODULE Spec2Model ----
(***************************************************************************)
(* A model of the binance-live ingestion pipeline.                         *)
(*                                                                         *)
(* The module holds one state machine per component of the pipeline; the   *)
(* variable `component` is chosen by Init and selects which component a    *)
(* behaviour exercises, so that each component is explored on its own:     *)
(*   "ws"      the streaming client  (internal/binance/websocket.go)       *)
(*   "stream"  the stream handlers with the store, the bus and the         *)
(*             checkpoints (internal/service/stream.go, sql/queries)       *)
(*   "sync"    the stream handlers together with the backfill batches      *)
(*             (internal/service/data_sync.go)                             *)
(*   "repo"    the series repositories (internal/repository): calls on     *)
(*             single records and short batches, one after the other       *)
(*   "chunks"  the series repositories: one BatchInsert of a long batch    *)
(*   "pool"    the worker pool of the backfill coordinator                 *)
(*             (SyncMissingData, internal/service/data_sync.go)            *)
(*   "window"  the backfill window of one pair (syncKlinesForSymbol)       *)
(*   "main"    the supervisor (cmd main and run) with the streaming task   *)
(*   "names"   the stream names (BuildStreamNames)                         *)
(*   "publisher" the publisher's three publish methods (part_014)          *)
(*   "rest"    the REST client's rate limiter (internal/binance/rest.go)   *)
(*   "backfill"  one pair's backfill, batch by batch (data_sync.go)          *)
(*   "events"  one event in a handler of the stream service (stream.go)   *)
(*   "status"  the checkpoint repository (part_012, sync_status.sql)      *)
(*   "roster"  the roster of active symbols in the cache (part_014)         *)
(***************************************************************************)
EXTENDS Integers, Sequences, FiniteSets, TLC

VARIABLES
    component,              \* which component this behaviour exercises
    \* ---- streaming client (WSClient) ----
    wsPc,                   \* position of WSClient.Start
    wsResult,               \* what Start returned: "none" while running
    attempt,                \* Start's local attempt counter
    maxReconnectAttempts,   \* WSClient.maxReconnectAttempts
    conn,                   \* WSClient.conn: Nil or the id of a socket
    readConn,               \* readMessages' local conn, read under the lock
    nextConn,               \* number of sockets dialled so far
    closedSockets,          \* ids of the sockets on which Close() was called
    stopClosed,             \* stopChan is closed
    ctxCancelled,           \* the context passed to Start is done
    closePc,                \* position of WSClient.Close
    pingTasks,              \* running pingHandler goroutines
    handlers,               \* WSClient.handlers: the registered stream names
    received,               \* history: frames read from the sockets, in order
    delivered,              \* history: handler invocations, in order
    consecFails,            \* history: dial failures since the last successful dial
    everDialFailed,         \* history: some dial has failed
    readFailures,           \* history: number of read errors on established connections
    \* ---- the store and the series repositories ----
    store,                  \* the tables klines and tickers: a set of rows each
    clock,                  \* wall clock (the application's and the store's NOW())
    repoCtxDone,            \* the context passed to the repository call is done
    bRepo,                  \* the repository the calls are made on
    bPc,                    \* position of the repository call: idle, chunks, done
    bOp,                    \* the call: repository, Insert or BatchInsert, records
    bIdx,                   \* batchInsertChunked's index i
    bResult,                \* what the call returned: "none" while running
    txLog,                  \* history: the transactions the call has run
    prevOp,                 \* history: the previous call, when it succeeded
    prevStore,              \* history: the store as that previous call left it
    calls,                  \* history: number of repository calls made
    \* ---- the stream handlers, the backfill, the bus and the checkpoints ----
    syncStatus,             \* the table sync_status: a set of rows
    bus,                    \* messages published, per channel and message timestamp
    latest,                 \* the latest-value cache: per key, Nil or a timestamp
    syncPc,                 \* per series, the position of its backfill worker
    syncLast,               \* per series, the open time of the batch's last candle
    last,                   \* history: the operation that has just run
    handled,                \* history: number of candle events handled
    closedCount,            \* history: closed candle events handled, per key
    failedKeys,             \* history: keys of closed events whose insert or publish failed
    maxPassed,              \* history: per series, the largest time passed to a
                            \* checkpoint writer that returned nil
    \* ---- the backfill coordinator (SyncMissingData) ----
    poolPc,                 \* position of SyncMissingData: idle, wait, returned
    poolResult,             \* what SyncMissingData returned: "none" while running
    poolEnabled,            \* sync.enabled
    poolWorkers,            \* sync.workers: the capacity of the semaphore
    pairPc,                 \* per pair, the position of its worker
    semaphore,              \* number of tokens in the semaphore channel
    wg,                     \* the wait group's counter
    errChan,                \* the errors sent on errChan: the pairs that sent them
    syncErrors,             \* the errors SyncMissingData has collected
    poolCtxDone,            \* the context passed to SyncMissingData is done
    \* ---- the backfill window of one pair (syncKlinesForSymbol) ----
    winPc,                  \* position of syncKlinesForSymbol: idle, loop, nil, error
    winNow,                 \* the time at which the worker starts
    winMaxSyncHours,        \* sync.max_sync_hours
    winBatchHours,          \* the span of one request: batch_size intervals
    winCheckpoint,          \* the pair's checkpoint as GetSyncStatus returns it
    winStart,               \* startTime
    winCurrent,             \* currentTime
    winRequests,            \* history: the start times of the candle requests
    winWindows,             \* history: the windows requested, in order
    \* ---- the supervisor (main, run) and the streaming task ----
    mainPc,                 \* position of run and main
    mainResult,             \* what run returned: "none" while running
    mainExit,               \* the exit code of the process: -1 while running
    mainSyncEnabled,        \* sync.enabled
    mainActiveSymbols,      \* number of active symbols in the store
    mainDb,                 \* the store pool: unopened, open, closed
    mainRedis,              \* the bus client: unopened, open, closed
    mainCtxCancelled,       \* run's context is cancelled
    mainStopped,            \* streamService.Stop() was called
    mainTrace,              \* history: the stages run has gone through
    taskPc,                 \* position of the streaming task and its handler
    taskHandled,            \* history: number of frames handed to a handler
    lateAttempts,           \* history: handler steps tried on a released resource
    lateEffects,            \* history: handler steps that took effect after the cancellation
    \* ---- the stream names (BuildStreamNames) ----
    namesPc,                \* position of BuildStreamNames: idle, loop, returned
    namesSymbols,           \* the argument symbols
    namesIntervals,         \* the argument intervals
    namesIdx,               \* number of symbols the loop has passed
    streams,                \* the local streams, which is returned
    namesHandlers,          \* the handlers registered: stream, kind, symbol, interval
    \* ---- the publisher (PublishKline, PublishTicker, PublishDepth) ----
    pubBus,                 \* messages published, per kind and message timestamp
    pubLatest,              \* the latest-value cache: per kind, Nil or a timestamp
    pubLast,                \* history: the publish call that has just returned
    \* ---- the REST client's rate limiter (doRequest) ----
    restR,                  \* binance.rest_rate_limit
    restTokens,             \* tokens in the bucket; below zero when tokens are reserved
    restNow,                \* the current tick
    restWaiters,            \* the waiting calls: the ticks at which they are due
    restLastEvent,          \* the limiter's lastEvent: the latest tick a token was given for
    restIssued,             \* history: number of requests issued, per tick
    restLast,               \* history: the number of calls made and the last outcome
    \* ---- one pair's backfill, batch by batch (syncKlinesForSymbol) ----
    bfPc,                   \* position of syncKlinesForSymbol: loop, decode, insert, delay, nil, error, panic
    bfRows,                 \* the response being handled: its number of rows and the shape of one row
    bfStored,               \* the candles 1..bfStored of the pair are in the store
    bfCheckpoint,           \* the pair's checkpoint row, if it exists
    bfRun,                  \* requests made, last open time before the batch, checkpoint before it, last outcome
    \* ---- one event in a handler of the stream service (stream.go) ----
    evPc,                   \* position of the handler: received, store, publish, touch, returned
    evEvent,                \* the event the handler was called with
    evRun,                  \* the handler's effects: store writes, publishes, checkpoint update, result
    \* ---- the checkpoint repository (part_012, sync_status.sql) ----
    ssRows,                 \* the table sync_status: a set of rows
    ssLast,                 \* history: the last call, its arguments and what it returned
    ssCalls,                \* number of calls made
    \* ---- the roster of active symbols in the cache (part_014, part_013) ----
    rsPc,                   \* position of the process: startup, published, streaming, stopped
    rsTtl,                  \* redis.live_data_ttl, in seconds
    rsSymbols,              \* the active symbols loaded at startup
    rsNow,                  \* the time, in seconds since the start
    rsKey,                  \* the key binance:symbols:active in the cache
    rsWritten               \* history: the write of the roster succeeded

wsVars == <<wsPc, wsResult, attempt, maxReconnectAttempts, conn, readConn, nextConn,
            closedSockets, stopClosed, ctxCancelled, closePc, pingTasks, handlers,
            received, delivered, consecFails, everDialFailed, readFailures>>

repoVars == <<store, clock, repoCtxDone, bRepo, bPc, bOp, bIdx, bResult, txLog, prevOp,
              prevStore, calls>>

repoCallVars == <<repoCtxDone, bRepo, bPc, bOp, bIdx, bResult, txLog, prevOp, prevStore,
                  calls>>

streamVars == <<syncStatus, bus, latest, syncPc, syncLast, last, handled, closedCount,
                failedKeys, maxPassed>>

poolVars == <<poolPc, poolResult, poolEnabled, poolWorkers, pairPc, semaphore, wg, errChan,
              syncErrors, poolCtxDone>>
winVars == <<winPc, winNow, winMaxSyncHours, winBatchHours, winCheckpoint, winStart,
             winCurrent, winRequests, winWindows>>
mainVars == <<mainPc, mainResult, mainExit, mainSyncEnabled, mainActiveSymbols, mainDb,
              mainRedis, mainCtxCancelled, mainStopped, mainTrace, taskPc, taskHandled,
              lateAttempts, lateEffects>>
namesVars == <<namesPc, namesSymbols, namesIntervals, namesIdx, streams, namesHandlers>>
pubVars == <<pubBus, pubLatest, pubLast>>
restVars == <<restR, restTokens, restNow, restWaiters, restLastEvent, restIssued,
               restLast>>
bfVars == <<bfPc, bfRows, bfStored, bfCheckpoint, bfRun>>
evVars == <<evPc, evEvent, evRun>>
ssVars == <<ssRows, ssLast, ssCalls>>
rsVars == <<rsPc, rsTtl, rsSymbols, rsNow, rsKey, rsWritten>>
extVars == <<poolVars, winVars, mainVars, namesVars, pubVars, restVars, bfVars, evVars, ssVars, rsVars>>
vars == <<component, wsVars, repoVars, streamVars, extVars>>

\* What the actions of one component leave alone.
nonWsVars == <<repoVars, streamVars, extVars>>
nonRepoVars == <<wsVars, streamVars, extVars>>
nonStreamVars == <<wsVars, repoCallVars, clock, extVars>>
nonPoolVars == <<wsVars, repoVars, streamVars, winVars, mainVars, namesVars, pubVars,
                  restVars, bfVars, evVars, ssVars, rsVars>>
nonWinVars == <<wsVars, repoVars, streamVars, poolVars, mainVars, namesVars, pubVars,
                 restVars, bfVars, evVars, ssVars, rsVars>>
nonMainVars == <<wsVars, repoVars, streamVars, poolVars, winVars, namesVars, pubVars,
                  restVars, bfVars, evVars, ssVars, rsVars>>
nonNamesVars == <<wsVars, repoVars, streamVars, poolVars, winVars, mainVars, pubVars,
                   restVars, bfVars, evVars, ssVars, rsVars>>
nonPublisherVars == <<wsVars, repoVars, streamVars, poolVars, winVars, mainVars,
                       namesVars, restVars, bfVars, evVars, ssVars, rsVars>>
nonRestVars == <<wsVars, repoVars, streamVars, poolVars, winVars, mainVars, namesVars,
                  pubVars, bfVars, evVars, ssVars, rsVars>>
nonBackfillVars == <<wsVars, repoVars, streamVars, poolVars, winVars, mainVars, namesVars,
                      pubVars, restVars, evVars, ssVars, rsVars>>
nonEventsVars == <<wsVars, repoVars, streamVars, poolVars, winVars, mainVars, namesVars,
                    pubVars, restVars, bfVars, ssVars, rsVars>>
nonStatusVars == <<wsVars, repoVars, streamVars, poolVars, winVars, mainVars, namesVars,
                    pubVars, restVars, bfVars, evVars, rsVars>>
nonRosterVars == <<wsVars, repoVars, streamVars, poolVars, winVars, mainVars, namesVars,
                    pubVars, restVars, bfVars, evVars, ssVars>>

Nil == 0

(***************************************************************************)
(* Bounds of the model.                                                    *)
(***************************************************************************)
MaxAttemptsCfg == 2     \* max_reconnect_attempts ranges over 0..MaxAttemptsCfg
MaxConns == 2           \* successful dials explored
MaxFrames == 2          \* frames read from the sockets
MaxKeys == 1            \* distinct primary keys of the small records
MaxBatchLen == 250      \* length of the longest batch handed to BatchInsert
MaxCalls == 2           \* repository calls in a row
MaxClock == 1           \* clock ticks
MaxT == 2               \* open times of the candles range over 1..MaxT
MaxEvents == 3          \* candle events handled
MaxPairs == 3           \* (symbol, interval) pairs of a backfill
MaxWorkers == 2         \* sync.workers ranges over 0..MaxWorkers
MaxNow == 4             \* times, in hours, range over 0..MaxNow
MaxSyncHoursCfg == 2    \* sync.max_sync_hours ranges over 1..MaxSyncHoursCfg
MaxBatchHours == 2      \* sync.batch_size ranges over 1..MaxBatchHours
MaxSymbols == 2         \* active symbols in the store range over 0..MaxSymbols
MaxHandled == 2         \* frames the streaming task hands to a handler
MaxIntervals == 2       \* length of the longest list of intervals
MaxPublishes == 3       \* publish calls in a row
MaxRate == 2            \* rest_rate_limit ranges over 0..MaxRate
MaxTicks == 4           \* ticks of the rate limiter's clock
MaxRestCalls == 5       \* calls of doRequest
MaxBatches == 2         \* requests of one pair's backfill
MaxLevels == 2          \* levels on one side of a depth event
MaxStatusCalls == 3     \* calls of the checkpoint repository
MaxTtl == 2             \* redis.live_data_ttl, in seconds
MaxRosterClock == 4     \* seconds the roster is followed for

(***************************************************************************)
(* The streaming client.                                                   *)
(***************************************************************************)
RegisteredStreams == {"btcusdt@kline_1m", "btcusdt@ticker"}
UnknownStream == "ethusdt@ticker"
StreamNames == RegisteredStreams \cup {UnknownStream}

\* A frame is undecodable, or the envelope {stream, data}.
Frames == {[ok |-> FALSE, stream |-> "", data |-> ""]}
          \cup [ok : {TRUE}, stream : {"btcusdt@kline_1m", UnknownStream}, data : {"p1"}]
          \cup [ok : {TRUE}, stream : {"btcusdt@ticker"}, data : {"p2"}]

\* websocket.go:88-92: the exhausted test made after the increment.
ExhaustedOffByOne(a, max) == a > max
Exhausted(a, max) == a >= max

\* websocket.go:105: the attempt counter after a successful dial.
AttemptKept(a) == a
AttemptAfterConnect(a) == 0

\* websocket.go:246-269: closeConnection, as the new <<conn, closedSockets>>.
closeConnectionLeak ==
    <<Nil, closedSockets>>
closeConnection ==
    IF conn # Nil THEN <<Nil, closedSockets \cup {conn}>> ELSE <<conn, closedSockets>>

\* websocket.go:176-190: the handler invocations a decoded frame causes.
DispatchUnregistered(f, c) ==
    IF f.ok
    THEN <<[conn |-> c, stream |-> f.stream, data |-> f.data]>>
    ELSE <<>>
Dispatch(f, c) ==
    IF f.ok /\ f.stream \in handlers
    THEN <<[conn |-> c, stream |-> f.stream, data |-> f.data]>>
    ELSE <<>>

\* websocket.go:180-181: the read loop calls the handler and goes on when the
\* handler has returned; without an invocation it is back at the top at once.
AfterDispatchAsync(invocations) == "read"
AfterDispatch(invocations) == IF invocations = <<>> THEN "read" ELSE "handling"

\* websocket.go:34-46: the client as NewWSClient builds it, Start about to run.
WsStart ==
    /\ wsPc = "select"
    /\ wsResult = "none"
    /\ attempt = 0
    /\ maxReconnectAttempts \in 0..MaxAttemptsCfg
    /\ conn = Nil
    /\ readConn = Nil
    /\ nextConn = 0
    /\ closedSockets = {}
    /\ stopClosed = FALSE
    /\ ctxCancelled = FALSE
    /\ closePc = "idle"
    /\ pingTasks = 0
    /\ handlers = RegisteredStreams
    /\ received = <<>>
    /\ delivered = <<>>
    /\ consecFails = 0
    /\ everDialFailed = FALSE
    /\ readFailures = 0

\* websocket.go:77-83: the select at the top of Start's loop.
StartSelect ==
    /\ component = "ws"
    /\ wsPc = "select"
    /\ \/ /\ ctxCancelled
          /\ wsPc' = "done"
          /\ wsResult' = "cancelled"
       \/ /\ stopClosed
          /\ wsPc' = "done"
          /\ wsResult' = "nil"
       \/ /\ ~ctxCancelled /\ ~stopClosed
          /\ wsPc' = "dial"
          /\ wsResult' = wsResult
    /\ UNCHANGED nonWsVars
    /\ UNCHANGED <<component, attempt, maxReconnectAttempts, conn, readConn, nextConn,
                   closedSockets, stopClosed, ctxCancelled, closePc, pingTasks,
                   handlers, received, delivered, consecFails, everDialFailed,
                   readFailures>>

\* websocket.go:86-102: Connect failed.
DialFail ==
    /\ component = "ws"
    /\ wsPc = "dial"
    /\ attempt' = attempt + 1
    /\ consecFails' = consecFails + 1
    /\ everDialFailed' = TRUE
    /\ IF Exhausted(attempt + 1, maxReconnectAttempts)
       THEN wsPc' = "done" /\ wsResult' = "exhausted"
       ELSE wsPc' = "sleep" /\ wsResult' = wsResult
    /\ UNCHANGED nonWsVars
    /\ UNCHANGED <<component, maxReconnectAttempts, conn, readConn, nextConn,
                   closedSockets, stopClosed, ctxCancelled, closePc, pingTasks,
                   handlers, received, delivered, readFailures>>

\* websocket.go:56-67, 104-108: Connect succeeded; reset, start the ping task.
DialSucceed ==
    /\ component = "ws"
    /\ wsPc = "dial"
    /\ nextConn < MaxConns
    /\ nextConn' = nextConn + 1
    /\ conn' = nextConn + 1
    /\ attempt' = AttemptAfterConnect(attempt)
    /\ consecFails' = 0
    /\ pingTasks' = pingTasks + 1
    /\ wsPc' = "read"
    /\ UNCHANGED nonWsVars
    /\ UNCHANGED <<component, wsResult, maxReconnectAttempts, readConn, closedSockets,
                   stopClosed, ctxCancelled, closePc, handlers, received, delivered,
                   everDialFailed, readFailures>>

\* websocket.go:100-101: time.Sleep(reconnectDelay) after a failed dial.
SleepElapsed ==
    /\ component = "ws"
    /\ wsPc = "sleep"
    /\ wsPc' = "select"
    /\ UNCHANGED nonWsVars
    /\ UNCHANGED <<component, wsResult, attempt, maxReconnectAttempts, conn, readConn,
                   nextConn, closedSockets, stopClosed, ctxCancelled, closePc,
                   pingTasks, handlers, received, delivered, consecFails,
                   everDialFailed, readFailures>>

\* websocket.go:135-153 and 111-114: the top of readMessages' loop. A non-nil
\* return makes Start close the connection and enter the cooldown; a nil return
\* (stopChan) sends Start back to the top of its loop.
ReadSelect ==
    /\ component = "ws"
    /\ wsPc = "read"
    /\ \/ /\ ctxCancelled
          /\ conn' = closeConnection[1]
          /\ closedSockets' = closeConnection[2]
          /\ wsPc' = "cooldown"
          /\ readConn' = readConn
       \/ /\ stopClosed
          /\ wsPc' = "select"
          /\ UNCHANGED <<conn, closedSockets, readConn>>
       \/ /\ ~ctxCancelled /\ ~stopClosed
          /\ IF conn = Nil
             THEN /\ wsPc' = "cooldown"
                  /\ UNCHANGED <<conn, closedSockets, readConn>>
             ELSE /\ wsPc' = "blocked"
                  /\ readConn' = conn
                  /\ UNCHANGED <<conn, closedSockets>>
    /\ UNCHANGED nonWsVars
    /\ UNCHANGED <<component, wsResult, attempt, maxReconnectAttempts, nextConn,
                   stopClosed, ctxCancelled, closePc, pingTasks, handlers, received,
                   delivered, consecFails, everDialFailed, readFailures>>

\* websocket.go:155-191: ReadMessage returned a frame; decode and dispatch it.
ReadFrame ==
    /\ component = "ws"
    /\ wsPc = "blocked"
    /\ readConn \notin closedSockets
    /\ Len(received) < MaxFrames
    /\ \E f \in Frames :
          /\ received' = Append(received, [conn |-> readConn, frame |-> f])
          /\ delivered' = delivered \o Dispatch(f, readConn)
          /\ wsPc' = AfterDispatch(Dispatch(f, readConn))
    /\ UNCHANGED nonWsVars
    /\ UNCHANGED <<component, wsResult, attempt, maxReconnectAttempts, conn, readConn,
                   nextConn, closedSockets, stopClosed, ctxCancelled, closePc,
                   pingTasks, handlers, consecFails, everDialFailed, readFailures>>

\* websocket.go:181: the handler returns, with an error or without.
HandlerReturn ==
    /\ component = "ws"
    /\ wsPc = "handling"
    /\ \E err \in BOOLEAN : wsPc' = IF err THEN "handlerError" ELSE "read"
    /\ UNCHANGED nonWsVars
    /\ UNCHANGED <<component, wsResult, attempt, maxReconnectAttempts, conn, readConn,
                   nextConn, closedSockets, stopClosed, ctxCancelled, closePc,
                   pingTasks, handlers, received, delivered, consecFails,
                   everDialFailed, readFailures>>

\* websocket.go:181-187: the handler's error is logged; the loop goes on.
LogHandlerError ==
    /\ component = "ws"
    /\ wsPc = "handlerError"
    /\ wsPc' = "read"
    /\ UNCHANGED nonWsVars
    /\ UNCHANGED <<component, wsResult, attempt, maxReconnectAttempts, conn, readConn,
                   nextConn, closedSockets, stopClosed, ctxCancelled, closePc,
                   pingTasks, handlers, received, delivered, consecFails,
                   everDialFailed, readFailures>>

\* websocket.go:155-159 and 111-114: ReadMessage failed (the peer dropped the
\* socket, or the socket was closed under the reader).
ReadError ==
    /\ component = "ws"
    /\ wsPc = "blocked"
    /\ readFailures' = readFailures + 1
    /\ conn' = closeConnection[1]
    /\ closedSockets' = closeConnection[2]
    /\ wsPc' = "cooldown"
    /\ UNCHANGED nonWsVars
    /\ UNCHANGED <<component, wsResult, attempt, maxReconnectAttempts, readConn,
                   nextConn, stopClosed, ctxCancelled, closePc, pingTasks, handlers,
                   received, delivered, consecFails, everDialFailed>>

\* websocket.go:116-127: the select of the cooldown before reconnecting.
CooldownSelect ==
    /\ component = "ws"
    /\ wsPc = "cooldown"
    /\ \/ /\ ctxCancelled
          /\ wsPc' = "done"
          /\ wsResult' = "cancelled"
       \/ /\ stopClosed
          /\ wsPc' = "done"
          /\ wsResult' = "nil"
       \/ /\ wsPc' = "select"
          /\ wsResult' = wsResult
    /\ UNCHANGED nonWsVars
    /\ UNCHANGED <<component, attempt, maxReconnectAttempts, conn, readConn, nextConn,
                   closedSockets, stopClosed, ctxCancelled, closePc, pingTasks,
                   handlers, received, delivered, consecFails, everDialFailed,
                   readFailures>>

\* websocket.go:241: Close() closes stopChan.
CloseStop ==
    /\ component = "ws"
    /\ closePc = "idle"
    /\ stopClosed' = TRUE
    /\ closePc' = "closing"
    /\ UNCHANGED nonWsVars
    /\ UNCHANGED <<component, wsPc, wsResult, attempt, maxReconnectAttempts, conn,
                   readConn, nextConn, closedSockets, ctxCancelled, pingTasks,
                   handlers, received, delivered, consecFails, everDialFailed,
                   readFailures>>

\* websocket.go:242: Close() then closes the connection and returns.
CloseConn ==
    /\ component = "ws"
    /\ closePc = "closing"
    /\ conn' = closeConnection[1]
    /\ closedSockets' = closeConnection[2]
    /\ closePc' = "closed"
    /\ UNCHANGED nonWsVars
    /\ UNCHANGED <<component, wsPc, wsResult, attempt, maxReconnectAttempts, readConn,
                   nextConn, stopClosed, ctxCancelled, pingTasks, handlers, received,
                   delivered, consecFails, everDialFailed, readFailures>>

\* The caller cancels the context passed to Start.
CancelCtx ==
    /\ component = "ws"
    /\ ~ctxCancelled
    /\ ctxCancelled' = TRUE
    /\ UNCHANGED nonWsVars
    /\ UNCHANGED <<component, wsPc, wsResult, attempt, maxReconnectAttempts, conn,
                   readConn, nextConn, closedSockets, stopClosed, closePc, pingTasks,
                   handlers, received, delivered, consecFails, everDialFailed,
                   readFailures>>

\* websocket.go:200-208: a ping task leaves on ctx.Done or stopChan.
PingExit ==
    /\ component = "ws"
    /\ pingTasks > 0
    /\ ctxCancelled \/ stopClosed
    /\ pingTasks' = pingTasks - 1
    /\ UNCHANGED nonWsVars
    /\ UNCHANGED <<component, wsPc, wsResult, attempt, maxReconnectAttempts, conn,
                   readConn, nextConn, closedSockets, stopClosed, ctxCancelled,
                   closePc, handlers, received, delivered, consecFails,
                   everDialFailed, readFailures>>

NextWS ==
    \/ StartSelect
    \/ DialFail
    \/ DialSucceed
    \/ SleepElapsed
    \/ ReadSelect
    \/ ReadFrame
    \/ HandlerReturn
    \/ LogHandlerError
    \/ ReadError
    \/ CooldownSelect
    \/ CloseStop
    \/ CloseConn
    \/ CancelCtx
    \/ PingExit


(***************************************************************************)
(* The store and the series repositories.                                  *)
(*                                                                         *)
(* A row is [key, cols, created_at]: the primary key, the non-key columns  *)
(* that the INSERT binds (taken together as one value) and created_at,     *)
(* which the INSERT does not bind. A record handed to a repository is      *)
(* [key, cols, CreatedAt]: models.Kline or models.Ticker.                  *)
(***************************************************************************)
Tables == {"klines", "tickers"}

\* kline.go (KlineRepository), ticker.go (TickerRepository) and the sqlc-based
\* TickerRepository of part_011.
Repos == {"kline", "ticker", "ticker_sqlc"}

TableOf(repo) == IF repo = "kline" THEN "klines" ELSE "tickers"

\* kline.go:61, part_011:101: const maxBatchSize.
maxBatchSize == 100

\* The non-key columns that the INSERT binds, taken as one decimal column and the
\* trade count. A record holds the decimal as a float64, here an integer count
\* of 10^-9 units, and the count as a Go int of 64 bits, here hi * 2^32 + lo with
\* lo < 2^31. The third value has a ninth decimal and a count beyond 32 bits.
ColsA == [price |-> 10, trades |-> [hi |-> 0, lo |-> 1]]
ColsB == [price |-> 20, trades |-> [hi |-> 0, lo |-> 2]]
ColsWide == [price |-> 15, trades |-> [hi |-> 1, lo |-> 1]]
Cols == {ColsA, ColsB, ColsWide}

\* part_005:8-16, tickers.sql:8-19: a DECIMAL(20, 8) column keeps eight decimals
\* and rounds the ninth.
ToDecimal8(p) == ((p + 5) \div 10) * 10

\* kline.go:42 and 130, part_011:67 and 196: int32(...) keeps the low 32 bits.
Int32(t) == t.lo

\* kline.go:173: int(dbKline.TradesCount) when a row is read back.
IntOf(n) == [hi |-> 0, lo |-> n]

\* kline.go:30-44: the values a statement stores for a record's non-key columns.
Bound(c) == [price |-> ToDecimal8(c.price), trades |-> Int32(c.trades)]

\* kline.go:162-176: a stored row's non-key columns as a read returns them.
ReadBack(c) == [price |-> c.price, trades |-> IntOf(c.trades)]

\* ticker.go:44-50: the raw statement binds the count itself; the driver refuses
\* a count outside the INTEGER column's range and the statement fails.
BindFails(repo, r) == repo = "ticker" /\ r.cols.trades.hi # 0

\* The primary key of the i-th key of a table: (symbol, interval, open_time) for
\* klines, (symbol, timestamp) for tickers.
KeyOf(table, i) ==
    IF table = "klines" THEN <<"BTCUSDT", "1m", i>> ELSE <<"BTCUSDT", i>>

Min(a, b) == IF a < b THEN a ELSE b
Max(a, b) == IF a > b THEN a ELSE b

RowsOfKey(rows, key) == {row \in rows : row.key = key}

\* part_004:1-17 (InsertKline), sql/queries/tickers.sql:1-19 (InsertTicker),
\* ticker.go:23-42: INSERT ... ON CONFLICT (key) DO UPDATE SET every bound
\* non-key column; created_at is the column default on insert and is not in the
\* SET list.
UpsertRowKeepOld(rows, r, now) ==
    IF \E old \in rows : old.key = r.key
    THEN rows
    ELSE rows \cup {[key |-> r.key, cols |-> Bound(r.cols), created_at |-> now]}
UpsertRow(rows, r, now) ==
    IF \E old \in rows : old.key = r.key
    THEN {IF old.key = r.key
             THEN [key |-> old.key, cols |-> Bound(r.cols), created_at |-> old.created_at]
             ELSE old : old \in rows}
    ELSE {row \in rows \cup {[key |-> r.key, cols |-> Bound(r.cols), created_at |-> now]} : TRUE}

\* kline.go:119-138, ticker.go:92-103: the statements of one transaction, in order.
\* (The records are applied first to last; the sequence is split in halves, and
\* the first half's result is evaluated before the second half is applied, only
\* to keep the evaluation shallow.)
RECURSIVE ApplyAll(_, _, _)
ApplyAll(rows, recs, now) ==
    IF Len(recs) = 0 THEN rows
    ELSE IF Len(recs) = 1 THEN UpsertRow(rows, recs[1], now)
    ELSE LET h == Len(recs) \div 2
             mid == ApplyAll(rows, SubSeq(recs, 1, h), now)
         IN  IF mid = {} THEN ApplyAll({}, SubSeq(recs, h + 1, Len(recs)), now)
             ELSE ApplyAll(mid, SubSeq(recs, h + 1, Len(recs)), now)

\* kline.go:62, part_011:102: whether BatchInsert takes the chunked path;
\* ticker.go:59-110 has no such path.
NeedsChunking(repo, n) == repo # "ticker" /\ n > maxBatchSize

\* kline.go:64-67: the chunk size the call works with.
ChunkSize(repo, n) == IF NeedsChunking(repo, n) THEN maxBatchSize ELSE n

\* kline.go:73-76: the end of the chunk that starts at i.
ChunkEnd(i, chunkSize, n) == IF i + chunkSize > n THEN n ELSE i + chunkSize

\* kline.go:108-114: the deferred rollback runs unless committed was set;
\* ticker.go:69: the deferred rollback always runs once the transaction began.
RollbackInvoked(repo, outcome) ==
    IF repo = "ticker" THEN outcome # "beginFail"
    ELSE outcome \in {"insertFail", "commitFail"}

\* kline.go:140-145, ticker.go:105-107: the statements of a transaction take
\* effect when its Commit returned nil, and on no other path.
CommittedOnInsertFailure(outcome) == outcome \in {"ok", "insertFail"}
Committed(outcome) == outcome = "ok"

\* kline.go:96-146: what a transaction can come to. A done context fails Begin,
\* and a record the statement cannot bind fails its insert.
TxOutcomes(repo, chunk, ctxDone) ==
    IF ctxDone THEN {"beginFail"}
    ELSE IF \E i \in 1..Len(chunk) : BindFails(repo, chunk[i])
    THEN {"beginFail", "insertFail"}
    ELSE {"beginFail", "insertFail", "commitFail", "ok"}

\* The records the callers hand over: one small record, or a long batch
\* of distinct keys.
SmallRecords(table) ==
    [key : {KeyOf(table, i) : i \in 1..MaxKeys}, cols : Cols, CreatedAt : 0..clock]
LongBatch(table, n) ==
    [i \in 1..n |-> [key |-> KeyOf(table, i), cols |-> ColsA, CreatedAt |-> clock]]
Batches(table) ==
    IF component = "chunks"
    THEN {LongBatch(table, n) : n \in {maxBatchSize, maxBatchSize + 1, MaxBatchLen}}
    ELSE {<<>>} \cup {<<r>> : r \in SmallRecords(table)}

\* The calls a behaviour makes: one long batch, or MaxCalls short ones.
CallLimit == IF component = "chunks" THEN 1 ELSE MaxCalls

NoOp == [repo |-> "none", kind |-> "none", batch |-> <<>>, at |-> 0]

RepoStart ==
    /\ bRepo \in Repos
    /\ store = [t \in Tables |-> {}]
    /\ clock = 0
    /\ repoCtxDone = FALSE
    /\ bPc = "idle"
    /\ bOp = NoOp
    /\ bIdx = 0
    /\ bResult = "none"
    /\ txLog = <<>>
    /\ prevOp = NoOp
    /\ prevStore = [t \in Tables |-> {}]
    /\ calls = 0

\* The previous call, remembered when it succeeded.
Remembered == IF bResult = "nil" THEN bOp ELSE NoOp

\* kline.go:29-51, ticker.go:22-57, part_011:29-92: Insert, one statement.
RepoInsert ==
    /\ component = "repo"
    /\ bPc \in {"idle", "done"}
    /\ calls < CallLimit
    /\ \E ok \in BOOLEAN, r \in SmallRecords(TableOf(bRepo)) :
          /\ (repoCtxDone \/ BindFails(bRepo, r)) => ~ok
          /\ bOp' = [repo |-> bRepo, kind |-> "Insert", batch |-> <<r>>, at |-> clock]
          /\ store' = IF ok
                      THEN [store EXCEPT ![TableOf(bRepo)] = UpsertRow(@, r, clock)]
                      ELSE store
          /\ bResult' = IF ok THEN "nil" ELSE "error"
    /\ bPc' = "done"
    /\ bIdx' = 0
    /\ txLog' = <<>>
    /\ prevOp' = Remembered
    /\ prevStore' = store
    /\ calls' = calls + 1
    /\ UNCHANGED <<clock, repoCtxDone, bRepo>>
    /\ UNCHANGED nonRepoVars
    /\ UNCHANGED component

\* kline.go:54-68, ticker.go:60-63, part_011:95-107: BatchInsert is called.
BatchInsertCall ==
    /\ component \in {"repo", "chunks"}
    /\ bPc \in {"idle", "done"}
    /\ calls < CallLimit
    /\ \E batch \in Batches(TableOf(bRepo)) :
          /\ bOp' = [repo |-> bRepo, kind |-> "BatchInsert", batch |-> batch,
                      at |-> clock]
          /\ IF Len(batch) = 0
             THEN bPc' = "done" /\ bResult' = "nil"
             ELSE bPc' = "chunks" /\ bResult' = "none"
    /\ bIdx' = 0
    /\ txLog' = <<>>
    /\ prevOp' = Remembered
    /\ prevStore' = store
    /\ calls' = calls + 1
    /\ UNCHANGED <<store, clock, repoCtxDone, bRepo>>
    /\ UNCHANGED nonRepoVars
    /\ UNCHANGED component

\* kline.go:72-91 with 96-146, ticker.go:65-109: one pass of the chunk loop (the
\* whole batch when the call is not chunked): the delay before a later chunk,
\* then the chunk's transaction.
BatchChunk ==
    /\ component \in {"repo", "chunks"}
    /\ bPc = "chunks"
    /\ LET n == Len(bOp.batch)
           size == ChunkSize(bOp.repo, n)
           end == ChunkEnd(bIdx, size, n)
           chunk == SubSeq(bOp.batch, bIdx + 1, end)
           table == TableOf(bOp.repo)
       IN  IF bIdx > 0 /\ repoCtxDone
           THEN /\ bPc' = "done"
                /\ bResult' = "cancelled"
                /\ UNCHANGED <<store, bIdx, txLog>>
           ELSE \E outcome \in TxOutcomes(bOp.repo, chunk, repoCtxDone) :
                   /\ txLog' = Append(txLog,
                                  [repo |-> bOp.repo, lo |-> bIdx, hi |-> end,
                                   outcome |-> outcome,
                                   rollback |-> RollbackInvoked(bOp.repo, outcome)])
                   /\ IF Committed(outcome)
                      THEN /\ store' = [store EXCEPT ![table] = ApplyAll(@, chunk, clock)]
                           /\ bIdx' = end
                           /\ IF end < n
                              THEN bPc' = "chunks" /\ bResult' = "none"
                              ELSE bPc' = "done" /\ bResult' = "nil"
                      ELSE /\ bPc' = "done"
                           /\ bResult' = "error"
                           /\ UNCHANGED <<store, bIdx>>
    /\ UNCHANGED <<clock, repoCtxDone, bRepo, bOp, prevOp, prevStore, calls>>
    /\ UNCHANGED nonRepoVars
    /\ UNCHANGED component

\* Time passes.
RepoTick ==
    /\ component = "repo"
    /\ clock < MaxClock
    /\ clock' = clock + 1
    /\ UNCHANGED <<store, repoCtxDone, bRepo, bPc, bOp, bIdx, bResult, txLog, prevOp,
                   prevStore, calls>>
    /\ UNCHANGED nonRepoVars
    /\ UNCHANGED component

\* The caller's context is cancelled.
RepoCancel ==
    /\ component \in {"repo", "chunks"}
    /\ ~repoCtxDone
    /\ repoCtxDone' = TRUE
    /\ UNCHANGED <<store, clock, bRepo, bPc, bOp, bIdx, bResult, txLog, prevOp, prevStore,
                   calls>>
    /\ UNCHANGED nonRepoVars
    /\ UNCHANGED component

NextRepo ==
    \/ RepoInsert
    \/ BatchInsertCall
    \/ BatchChunk
    \/ RepoTick
    \/ RepoCancel

NextChunks ==
    \/ BatchInsertCall
    \/ BatchChunk
    \/ RepoCancel

(***************************************************************************)
(* The stream handlers, the backfill batches, the bus and the checkpoints. *)
(*                                                                         *)
(* A candle series is (symbol, interval); the model has one symbol, whose   *)
(* 1m candles are streamed and backfilled. A checkpoint row is [interval,  *)
(* last_data_time, status, error_message] of that symbol and data type     *)
(* "kline" (error_message is Nil for NULL); the table also holds the       *)
(* seeded row of a series that is not being ingested.                      *)
(***************************************************************************)
Symbol == "BTCUSDT"
Series == {"1m"}
IdleInterval == "1h"
OpenTimes == 1..MaxT
StreamCols == {ColsA, ColsB}

KlineKey(symbol, interval, openTime) == <<symbol, interval, openTime>>

\* part_014:57, 63: the channel and the cache key of a candle series.
KlineChannel(symbol, interval) == <<"binance", "kline", symbol, interval>>
LatestKey(symbol, interval) == <<"binance", "latest", "kline", symbol, interval>>
Channels == {KlineChannel(Symbol, s) : s \in Series}
LatestKeys == {LatestKey(Symbol, s) : s \in Series}

\* part_007:5-23: the row the seed inserts for a candle series of an active symbol.
SeedRow(interval) ==
    [interval |-> interval, last_data_time |-> 0, status |-> "pending",
     error_message |-> Nil]

CheckpointOf(rows, interval) == {row \in rows : row.interval = interval}

\* sync_status.sql:18-25: UPDATE ... WHERE: the rows of the series, if any, take
\* the time and become active; no row is inserted.
UpdateLastDataTime(rows, interval, t) ==
    {IF row.interval = interval
        THEN [interval |-> interval, last_data_time |-> t, status |-> "active",
              error_message |-> Nil]
        ELSE row : row \in rows}

\* sync_status.sql:7-16: INSERT ... ON CONFLICT DO UPDATE SET last_data_time =
\* EXCLUDED.last_data_time, status = EXCLUDED.status, error_message =
\* EXCLUDED.error_message.
UpsertSyncStatus(rows, interval, t, status, errorMessage) ==
    (rows \ CheckpointOf(rows, interval))
        \cup {[interval |-> interval, last_data_time |-> t, status |-> status,
               error_message |-> errorMessage]}

\* stream.go:113: only closed candles are processed.
ProcessedAlways(closed) == TRUE
Processed(closed) == closed

\* part_014:56-60 with part_013:70-81: PUBLISH on the channel; the message carries
\* the candle's open time as its timestamp.
PublishDeduplicated(b, channel, t, ok) ==
    IF ok /\ b[channel][t] = 0 THEN [b EXCEPT ![channel][t] = 1] ELSE b
Publish(b, channel, t, ok) ==
    IF ok THEN [b EXCEPT ![channel][t] = @ + 1] ELSE b

\* part_014:58-71: a failed publish returns before the cache write; a failed cache
\* write is logged only.
CacheLatestUnconditional(l, key, t, publishOk, cacheOk) ==
    IF cacheOk THEN [l EXCEPT ![key] = t] ELSE l
CacheLatest(l, key, t, publishOk, cacheOk) ==
    IF publishOk /\ cacheOk THEN [l EXCEPT ![key] = t] ELSE l

\* The record of the operation that has just run: which one, on which series
\* and open time, whether the event was a decoded closed candle, and whether the
\* store took every write of the operation.
NoOperation == [op |-> "none", series |-> "1m", T |-> 0, closed |-> FALSE, storeOk |-> TRUE]

StreamStart ==
    /\ \E seeded \in SUBSET Series :
          syncStatus = {SeedRow(s) : s \in seeded \cup {IdleInterval}}
    /\ bus = [c \in Channels |-> [t \in OpenTimes |-> 0]]
    /\ latest = [k \in LatestKeys |-> Nil]
    /\ syncPc = [s \in Series |-> "idle"]
    /\ syncLast = [s \in Series |-> 0]
    /\ last = NoOperation
    /\ handled = 0
    /\ closedCount = [s \in Series |-> [t \in OpenTimes |-> 0]]
    /\ failedKeys = {}
    /\ maxPassed = [s \in Series |-> 0]

\* stream.go:106-140 with kline.go:29-51, part_014:29-73 and
\* sync_status.sql:18-25: the candle handler, from the decoding of the event to
\* its return. A failed insert, publish or checkpoint update is logged and the
\* handler goes on.
HandleKlineEvent ==
    /\ component \in {"stream", "sync"}
    /\ handled < MaxEvents
    /\ \E s \in Series, t \in OpenTimes, c \in StreamCols,
          decoded, closed, insertOk, publishOk, cacheOk, touchOk \in BOOLEAN :
        LET kline == [key |-> KlineKey(Symbol, s, t), cols |-> c, CreatedAt |-> clock]
            acts == decoded /\ Processed(closed)
        IN  /\ ~acts => (insertOk /\ publishOk /\ cacheOk /\ touchOk /\ c = ColsA)
            /\ ~decoded => ~closed
            /\ ~publishOk => cacheOk
            /\ store' = IF acts /\ insertOk
                        THEN [store EXCEPT !["klines"] = UpsertRow(@, kline, clock)]
                        ELSE store
            /\ bus' = IF acts
                      THEN Publish(bus, KlineChannel(Symbol, s), t, publishOk)
                      ELSE bus
            /\ latest' = IF acts
                         THEN CacheLatest(latest, LatestKey(Symbol, s), t, publishOk, cacheOk)
                         ELSE latest
            /\ syncStatus' = IF acts /\ touchOk
                             THEN UpdateLastDataTime(syncStatus, s, t)
                             ELSE syncStatus
            /\ last' = [op |-> "kline", series |-> s, T |-> t,
                        closed |-> (decoded /\ closed),
                        storeOk |-> (insertOk /\ touchOk)]
            /\ closedCount' = IF decoded /\ closed
                              THEN [closedCount EXCEPT ![s][t] = @ + 1]
                              ELSE closedCount
            /\ failedKeys' = IF decoded /\ closed /\ ~(insertOk /\ publishOk)
                             THEN failedKeys \cup {KlineKey(Symbol, s, t)}
                             ELSE failedKeys
            /\ maxPassed' = IF acts /\ touchOk
                            THEN [maxPassed EXCEPT ![s] = Max(@, t)]
                            ELSE maxPassed
    /\ handled' = handled + 1
    /\ UNCHANGED <<syncPc, syncLast>>
    /\ UNCHANGED nonStreamVars
    /\ UNCHANGED component

\* data_sync.go:181-229: one batch of the backfill of a series: the candles
\* fetched, lo..hi, are inserted in one BatchInsert; on an error the worker
\* returns, otherwise it goes to the delay before the checkpoint.
SyncInsertBatch ==
    /\ component = "sync"
    /\ \E s \in Series, lo \in OpenTimes, hi \in OpenTimes, ok \in BOOLEAN :
        LET batch == [i \in 1..(hi - lo + 1) |->
                         [key |-> KlineKey(Symbol, s, lo + i - 1), cols |-> ColsA,
                          CreatedAt |-> clock]]
        IN  /\ syncPc[s] = "idle"
            /\ lo <= hi
            /\ store' = IF ok
                        THEN [store EXCEPT !["klines"] = ApplyAll(@, batch, clock)]
                        ELSE store
            /\ syncPc' = IF ok THEN [syncPc EXCEPT ![s] = "sleep"] ELSE syncPc
            /\ syncLast' = IF ok THEN [syncLast EXCEPT ![s] = hi] ELSE syncLast
            /\ last' = [NoOperation EXCEPT !.op = "backfillInsert", !.series = s,
                                           !.T = hi, !.storeOk = ok]
    /\ UNCHANGED <<syncStatus, bus, latest, handled, closedCount, failedKeys, maxPassed>>
    /\ UNCHANGED nonStreamVars
    /\ UNCHANGED component

\* data_sync.go:225-247: after the delay, the checkpoint of the series is upserted
\* with the open time of the batch's last candle and status "active"; an error is
\* logged only. A context cancelled during the delay ends the worker.
SyncUpsert ==
    /\ component = "sync"
    /\ \E s \in Series, outcome \in {"ok", "error", "cancelled"} :
        /\ syncPc[s] = "sleep"
        /\ syncStatus' = IF outcome = "ok"
                         THEN UpsertSyncStatus(syncStatus, s, syncLast[s], "active", Nil)
                         ELSE syncStatus
        /\ maxPassed' = IF outcome = "ok"
                        THEN [maxPassed EXCEPT ![s] = Max(@, syncLast[s])]
                        ELSE maxPassed
        /\ syncPc' = [syncPc EXCEPT ![s] = "idle"]
        /\ syncLast' = [syncLast EXCEPT ![s] = 0]
        /\ last' = [NoOperation EXCEPT !.op = "backfillUpsert", !.series = s,
                                       !.T = syncLast[s], !.storeOk = (outcome = "ok")]
    /\ UNCHANGED <<store, bus, latest, handled, closedCount, failedKeys>>
    /\ UNCHANGED nonStreamVars
    /\ UNCHANGED component

NextStream ==
    \/ HandleKlineEvent

NextSync ==
    \/ HandleKlineEvent
    \/ SyncInsertBatch
    \/ SyncUpsert

(***************************************************************************)
(* The backfill coordinator: the worker pool of SyncMissingData.           *)
(*                                                                         *)
(* One worker goroutine is spawned per (symbol, interval) pair; the pairs  *)
(* are numbered 1..n in spawn order. The semaphore is a buffered channel   *)
(* of capacity sync.workers, modelled by the number of tokens in it.       *)
(***************************************************************************)
Pairs == 1..MaxPairs

\* data_sync.go:76, 89: a send on the semaphore channel goes through while the
\* channel holds fewer tokens than its capacity.
CanAcquireAlways(sem, workers) == TRUE
CanAcquire(sem, workers) == sem < workers

\* data_sync.go:105: the worker sends its error on errChan.
SendErrorDropped(ch, p) == ch
SendError(ch, p) == Append(ch, p)

\* data_sync.go:80: errChan := make(chan error, len(symbols)*len(KlineIntervals)):
\* one place per pair, that is per worker spawned.
ErrChanCapacity(spawned) == spawned

\* data_sync.go:90: defer func() { <-semaphore }(): the worker gives its slot back.
ReleaseSlotKept(sem) == sem
ReleaseSlot(sem) == sem - 1

\* The workers that hold a semaphore slot: those in the stagger delay or inside
\* syncKlinesForSymbol.
Holders == {p \in Pairs : pairPc[p] \in {"stagger", "sync"}}
\* The workers that have returned.
Exited == {p \in Pairs : pairPc[p] \in {"cancelled", "nil", "error"}}
Spawned == {p \in Pairs : pairPc[p] # "none"}

PoolStart ==
    /\ poolPc = "idle"
    /\ poolResult = "none"
    /\ poolEnabled \in BOOLEAN
    /\ poolWorkers \in 0..MaxWorkers
    /\ pairPc = [p \in Pairs |-> "none"]
    /\ semaphore = 0
    /\ wg = 0
    /\ errChan = <<>>
    /\ syncErrors = <<>>
    /\ poolCtxDone = FALSE

\* data_sync.go:53-109: SyncMissingData up to wg.Wait: the early returns, then one
\* worker spawned per pair of an active symbol and a configured interval.
SyncMissingDataCall ==
    /\ component = "pool"
    /\ poolPc = "idle"
    /\ IF ~poolEnabled
       THEN /\ poolPc' = "returned" /\ poolResult' = "nil"
            /\ UNCHANGED <<pairPc, wg>>
       ELSE \E symbolsOk \in BOOLEAN, n \in 0..MaxPairs :
               /\ ~symbolsOk => n = 0
               /\ IF ~symbolsOk
                  THEN /\ poolPc' = "returned" /\ poolResult' = "error"
                       /\ UNCHANGED <<pairPc, wg>>
                  ELSE /\ pairPc' = [p \in Pairs |-> IF p <= n THEN "spawned" ELSE "none"]
                       /\ wg' = n
                       /\ poolPc' = "wait"
                       /\ poolResult' = "none"
    /\ UNCHANGED <<poolEnabled, poolWorkers, semaphore, errChan, syncErrors, poolCtxDone>>
    /\ UNCHANGED nonPoolVars
    /\ UNCHANGED component

\* data_sync.go:89: the worker acquires a semaphore slot.
Acquire(p) ==
    /\ component = "pool"
    /\ pairPc[p] = "spawned"
    /\ CanAcquire(semaphore, poolWorkers)
    /\ semaphore' = semaphore + 1
    /\ pairPc' = [pairPc EXCEPT ![p] = "stagger"]
    /\ UNCHANGED <<poolPc, poolResult, poolEnabled, poolWorkers, wg, errChan, syncErrors,
                   poolCtxDone>>
    /\ UNCHANGED nonPoolVars
    /\ UNCHANGED component

\* data_sync.go:93-97: the stagger delay elapses.
StaggerElapsed(p) ==
    /\ component = "pool"
    /\ pairPc[p] = "stagger"
    /\ pairPc' = [pairPc EXCEPT ![p] = "sync"]
    /\ UNCHANGED <<poolPc, poolResult, poolEnabled, poolWorkers, semaphore, wg, errChan,
                   syncErrors, poolCtxDone>>
    /\ UNCHANGED nonPoolVars
    /\ UNCHANGED component

\* data_sync.go:94-95 with the deferred calls of 86 and 90: the worker sees the
\* cancellation in the stagger delay and returns; the slot is released and the
\* wait group is decremented.
StaggerCancelled(p) ==
    /\ component = "pool"
    /\ pairPc[p] = "stagger"
    /\ poolCtxDone
    /\ pairPc' = [pairPc EXCEPT ![p] = "cancelled"]
    /\ semaphore' = ReleaseSlot(semaphore)
    /\ wg' = wg - 1
    /\ UNCHANGED <<poolPc, poolResult, poolEnabled, poolWorkers, errChan, syncErrors,
                   poolCtxDone>>
    /\ UNCHANGED nonPoolVars
    /\ UNCHANGED component

\* data_sync.go:99-107 with the deferred calls of 86 and 90: syncKlinesForSymbol
\* returns; an error is logged and sent on errChan, which takes place while the
\* channel is not full; the slot is released and the wait group is decremented.
SyncReturn(p) ==
    /\ component = "pool"
    /\ pairPc[p] = "sync"
    /\ \E ok \in BOOLEAN :
          /\ ok \/ Len(errChan) < ErrChanCapacity(Cardinality(Spawned))
          /\ pairPc' = [pairPc EXCEPT ![p] = IF ok THEN "nil" ELSE "error"]
          /\ errChan' = IF ok THEN errChan ELSE SendError(errChan, p)
    /\ semaphore' = ReleaseSlot(semaphore)
    /\ wg' = wg - 1
    /\ UNCHANGED <<poolPc, poolResult, poolEnabled, poolWorkers, syncErrors, poolCtxDone>>
    /\ UNCHANGED nonPoolVars
    /\ UNCHANGED component

\* data_sync.go:112-129: every worker has returned: errChan is closed and drained
\* into syncErrors, the count is logged, and nil is returned.
WaitReturn ==
    /\ component = "pool"
    /\ poolPc = "wait"
    /\ wg = 0
    /\ syncErrors' = errChan
    /\ errChan' = <<>>
    /\ poolPc' = "returned"
    /\ poolResult' = "nil"
    /\ UNCHANGED <<poolEnabled, poolWorkers, pairPc, semaphore, wg, poolCtxDone>>
    /\ UNCHANGED nonPoolVars
    /\ UNCHANGED component

\* The context passed to SyncMissingData is cancelled.
PoolCancel ==
    /\ component = "pool"
    /\ ~poolCtxDone
    /\ poolCtxDone' = TRUE
    /\ UNCHANGED <<poolPc, poolResult, poolEnabled, poolWorkers, pairPc, semaphore, wg,
                   errChan, syncErrors>>
    /\ UNCHANGED nonPoolVars
    /\ UNCHANGED component

NextPool ==
    \/ SyncMissingDataCall
    \/ \E p \in Pairs : Acquire(p)
    \/ \E p \in Pairs : StaggerElapsed(p)
    \/ \E p \in Pairs : StaggerCancelled(p)
    \/ \E p \in Pairs : SyncReturn(p)
    \/ WaitReturn
    \/ PoolCancel

(***************************************************************************)
(* The backfill window of one pair: syncKlinesForSymbol.                   *)
(*                                                                         *)
(* Times are whole hours since the epoch; last_data_time, kept in          *)
(* milliseconds by the store, is a multiple of an hour here. winNow is the *)
(* time at which the worker starts, the endTime of its window.             *)
(***************************************************************************)
NoCheckpoint == [exists |-> FALSE, last_data_time |-> 0]
Checkpoints == {NoCheckpoint} \cup [exists : {TRUE}, last_data_time : 0..MaxNow]

\* data_sync.go:147-156: the start of the window.
StartTimeClamped(checkpoint, now, maxSyncHours) ==
    IF checkpoint.exists /\ checkpoint.last_data_time # 0
    THEN Max(checkpoint.last_data_time, now - maxSyncHours)
    ELSE now - maxSyncHours
StartTime(checkpoint, now, maxSyncHours) ==
    IF checkpoint.exists /\ checkpoint.last_data_time # 0
    THEN checkpoint.last_data_time
    ELSE now - maxSyncHours

\* data_sync.go:289-324: the duration of an interval, in hours; an interval that
\* is not in the list counts as one hour.
IntervalNames == {"1h", "2h", "7h"}
getIntervalDuration(interval) ==
    CASE interval = "1h" -> 1
      [] interval = "2h" -> 2
      [] OTHER -> 1

\* data_sync.go:174: the span of one request, batch_size times the duration of
\* the interval, for batch_size in 1..MaxBatchHours.
BatchSpans ==
    {batchSize * getIntervalDuration(i) : batchSize \in 1..MaxBatchHours, i \in IntervalNames}

\* data_sync.go:174-178: the end of the window requested next.
BatchEndTimeUnclamped(currentTime, span, endTime) == currentTime + span
BatchEndTime(currentTime, span, endTime) == Min(currentTime + span, endTime)

WindowStart ==
    /\ winPc = "idle"
    /\ winNow \in 0..MaxNow
    /\ winMaxSyncHours \in 1..MaxSyncHoursCfg
    /\ winBatchHours \in BatchSpans
    /\ winCheckpoint \in Checkpoints
    /\ winStart = 0
    /\ winCurrent = 0
    /\ winRequests = {}
    /\ winWindows = <<>>

\* data_sync.go:133-161: the checkpoint is read and the start of the window is
\* determined; a failed read returns the error.
SyncKlinesBegin ==
    /\ component = "window"
    /\ winPc = "idle"
    /\ \E readOk \in BOOLEAN :
          IF readOk
          THEN /\ winStart' = StartTime(winCheckpoint, winNow, winMaxSyncHours)
               /\ winCurrent' = StartTime(winCheckpoint, winNow, winMaxSyncHours)
               /\ winPc' = "loop"
          ELSE /\ winPc' = "error"
               /\ UNCHANGED <<winStart, winCurrent>>
    /\ UNCHANGED <<winNow, winMaxSyncHours, winBatchHours, winCheckpoint, winRequests,
                   winWindows>>
    /\ UNCHANGED nonWinVars
    /\ UNCHANGED component

\* data_sync.go:164-248: one pass of the loop: the candles of
\* [currentTime, batchEndTime] are requested; a cancelled context, a failed
\* request or a failed insert returns the error, an empty answer ends the loop,
\* and otherwise the next pass starts at batchEndTime.
FetchBatch ==
    /\ component = "window"
    /\ winPc = "loop"
    /\ winCurrent < winNow
    /\ \E outcome \in {"cancelled", "fetchError", "empty", "insertError", "ok"} :
        LET batchEndTime == BatchEndTime(winCurrent, winBatchHours, winNow)
        IN  /\ winRequests' = IF outcome = "cancelled"
                              THEN winRequests
                              ELSE winRequests \cup {winCurrent}
            /\ winWindows' = IF outcome = "cancelled"
                             THEN winWindows
                             ELSE Append(winWindows, [s |-> winCurrent, e |-> batchEndTime])
            /\ winPc' = IF outcome = "ok" THEN "loop"
                        ELSE IF outcome = "empty" THEN "nil"
                        ELSE "error"
            /\ winCurrent' = IF outcome = "ok" THEN batchEndTime ELSE winCurrent
    /\ UNCHANGED <<winNow, winMaxSyncHours, winBatchHours, winCheckpoint, winStart>>
    /\ UNCHANGED nonWinVars
    /\ UNCHANGED component

\* data_sync.go:164, 250-256: the window is exhausted and nil is returned.
WindowDone ==
    /\ component = "window"
    /\ winPc = "loop"
    /\ ~(winCurrent < winNow)
    /\ winPc' = "nil"
    /\ UNCHANGED <<winNow, winMaxSyncHours, winBatchHours, winCheckpoint, winStart,
                   winCurrent, winRequests, winWindows>>
    /\ UNCHANGED nonWinVars
    /\ UNCHANGED component

NextWindow ==
    \/ SyncKlinesBegin
    \/ FetchBatch
    \/ WindowDone

(***************************************************************************)
(* The supervisor: main and run, and the streaming task that run starts.   *)
(*                                                                         *)
(* mainTrace lists, in order, the stages run has gone through: "roster"    *)
(* (the publication of the active symbols, "rosterFailed" when the bus      *)
(* refused it), "backfill" (the call of SyncMissingData) and "stream" (the *)
(* start of the stream service).                                           *)
(***************************************************************************)
\* part_001:176: the roster is empty.
NoSymbolsNever(n) == FALSE
NoSymbols(n) == n = 0

\* part_001:104-108: main's exit code: log.Fatal exits with 1 on an error of run.
ExitCode(result) == IF result = "nil" THEN 0 ELSE 1

\* part_001:126, 148: the deferred Close calls of run, for the resources
\* that were opened.
Released(state) == IF state = "open" THEN "closed" ELSE state

MainStart ==
    /\ mainPc = "start"
    /\ mainResult = "none"
    /\ mainExit = -1
    /\ mainSyncEnabled \in BOOLEAN
    /\ mainActiveSymbols \in 0..MaxSymbols
    /\ mainDb = "unopened"
    /\ mainRedis = "unopened"
    /\ mainCtxCancelled = FALSE
    /\ mainStopped = FALSE
    /\ mainTrace = <<>>
    /\ taskPc = "none"
    /\ taskHandled = 0
    /\ lateAttempts = {}
    /\ lateEffects = {}

\* part_001:113-168: run, from its start to the connectivity test: the store
\* pool, the migrations, the bus client, the ping. An error is returned, the
\* deferred Close calls releasing what was opened.
RunSetup ==
    /\ component = "main"
    /\ mainPc = "start"
    /\ \E outcome \in {"dbError", "migrationError", "redisError", "pingError", "ok"} :
          /\ mainDb' = IF outcome = "dbError" THEN "unopened"
                       ELSE IF outcome = "ok" THEN "open" ELSE "closed"
          /\ mainRedis' = IF outcome \in {"dbError", "migrationError", "redisError"}
                          THEN "unopened"
                          ELSE IF outcome = "ok" THEN "open" ELSE "closed"
          /\ mainPc' = IF outcome = "ok" THEN "symbols" ELSE "returned"
          /\ mainResult' = IF outcome = "ok" THEN "none" ELSE outcome
    /\ UNCHANGED <<mainExit, mainSyncEnabled, mainActiveSymbols, mainCtxCancelled,
                   mainStopped, mainTrace, taskPc, taskHandled, lateAttempts,
                   lateEffects>>
    /\ UNCHANGED nonMainVars
    /\ UNCHANGED component

\* part_001:170-182: the active symbols are loaded; a failed query and an empty
\* roster each return an error.
LoadSymbols ==
    /\ component = "main"
    /\ mainPc = "symbols"
    /\ \E queryOk \in BOOLEAN :
          LET result == IF ~queryOk THEN "failed to get active symbols"
                        ELSE IF NoSymbols(mainActiveSymbols)
                        THEN "no active symbols configured"
                        ELSE "none"
          IN  /\ mainResult' = result
              /\ mainPc' = IF result = "none" THEN "roster" ELSE "returned"
              /\ mainDb' = IF result = "none" THEN mainDb ELSE Released(mainDb)
              /\ mainRedis' = IF result = "none" THEN mainRedis ELSE Released(mainRedis)
    /\ UNCHANGED <<mainExit, mainSyncEnabled, mainActiveSymbols, mainCtxCancelled,
                   mainStopped, mainTrace, taskPc, taskHandled, lateAttempts,
                   lateEffects>>
    /\ UNCHANGED nonMainVars
    /\ UNCHANGED component

\* part_001:184-188: the roster is published; a failure is logged only.
PublishRoster ==
    /\ component = "main"
    /\ mainPc = "roster"
    /\ \E ok \in BOOLEAN :
          mainTrace' = Append(mainTrace, IF ok THEN "roster" ELSE "rosterFailed")
    /\ mainPc' = "stream"
    /\ UNCHANGED <<mainResult, mainExit, mainSyncEnabled, mainActiveSymbols, mainDb,
                   mainRedis, mainCtxCancelled, mainStopped, taskPc, taskHandled,
                   lateAttempts, lateEffects>>
    /\ UNCHANGED nonMainVars
    /\ UNCHANGED component

\* part_001:190-231 with stream.go:47-79: the services are set up (the backfill
\* coordinator and its call are commented out) and the stream service is
\* started: the handlers are registered and the streaming client's Start runs
\* in a goroutine of its own.
StartStream ==
    /\ component = "main"
    /\ mainPc = "stream"
    /\ mainTrace' = Append(mainTrace, "stream")
    /\ taskPc' = "reading"
    /\ mainPc' = "running"
    /\ UNCHANGED <<mainResult, mainExit, mainSyncEnabled, mainActiveSymbols, mainDb,
                   mainRedis, mainCtxCancelled, mainStopped, taskHandled, lateAttempts,
                   lateEffects>>
    /\ UNCHANGED nonMainVars
    /\ UNCHANGED component

\* part_001:233-246 with stream.go:306-309 and websocket.go:239-243: the
\* shutdown signal arrives: the root context is cancelled, the stream service
\* is stopped (stopChan closed, the socket closed) and run returns nil.
Shutdown ==
    /\ component = "main"
    /\ mainPc = "running"
    /\ mainCtxCancelled' = TRUE
    /\ mainStopped' = TRUE
    /\ mainResult' = "nil"
    /\ mainPc' = "closing"
    /\ UNCHANGED <<mainExit, mainSyncEnabled, mainActiveSymbols, mainDb, mainRedis,
                   mainTrace, taskPc, taskHandled, lateAttempts,
                   lateEffects>>
    /\ UNCHANGED nonMainVars
    /\ UNCHANGED component

\* part_001:148: the deferred redisClient.Close(), the first deferred call to
\* run when run returns.
ReleaseBus ==
    /\ component = "main"
    /\ mainPc = "closing"
    /\ mainRedis = "open"
    /\ mainRedis' = "closed"
    /\ UNCHANGED <<mainPc, mainResult, mainExit, mainSyncEnabled, mainActiveSymbols,
                   mainDb, mainCtxCancelled, mainStopped, mainTrace, taskPc, taskHandled,
                   lateAttempts, lateEffects>>
    /\ UNCHANGED nonMainVars
    /\ UNCHANGED component

\* part_001:126: the deferred db.Close(), which runs after the bus client was
\* closed.
ReleasePool ==
    /\ component = "main"
    /\ mainPc = "closing"
    /\ mainRedis = "closed"
    /\ mainDb = "open"
    /\ mainDb' = "closed"
    /\ mainPc' = "returned"
    /\ UNCHANGED <<mainResult, mainExit, mainSyncEnabled, mainActiveSymbols, mainRedis,
                   mainCtxCancelled, mainStopped, mainTrace, taskPc, taskHandled,
                   lateAttempts, lateEffects>>
    /\ UNCHANGED nonMainVars
    /\ UNCHANGED component

\* part_001:104-111: run has returned; the process exits, and its goroutines
\* end with it.
ProcessExit ==
    /\ component = "main"
    /\ mainPc = "returned"
    /\ mainPc' = "exited"
    /\ mainExit' = ExitCode(mainResult)
    /\ UNCHANGED <<mainResult, mainSyncEnabled, mainActiveSymbols, mainDb, mainRedis,
                   mainCtxCancelled, mainStopped, mainTrace, taskPc, taskHandled,
                   lateAttempts, lateEffects>>
    /\ UNCHANGED nonMainVars
    /\ UNCHANGED component

\* websocket.go:133-187: the streaming task reads a frame and calls its handler.
TaskReadFrame ==
    /\ component = "main"
    /\ mainPc # "exited"
    /\ taskPc = "reading"
    /\ ~mainStopped
    /\ taskHandled < MaxHandled
    /\ taskPc' = "insert"
    /\ taskHandled' = taskHandled + 1
    /\ UNCHANGED <<mainPc, mainResult, mainExit, mainSyncEnabled, mainActiveSymbols, mainDb,
                   mainRedis, mainCtxCancelled, mainStopped, mainTrace, lateAttempts,
                   lateEffects>>
    /\ UNCHANGED nonMainVars
    /\ UNCHANGED component

\* stream.go:124, 156: the context of the handler's calls, context.Background(),
\* is never done, whatever the root context is.
HandlerContextDone(rootCancelled) == FALSE

\* stream.go:106-140: the steps of the candle handler, each on a context of its
\* own (context.Background()): the store write, the publish, the checkpoint
\* update. A step on a resource that was released fails and is logged.
HandlerStep ==
    /\ component = "main"
    /\ mainPc # "exited"
    /\ taskPc \in {"insert", "publish", "touch"}
    /\ taskPc' = IF taskPc = "insert" THEN "publish"
                 ELSE IF taskPc = "publish" THEN "touch"
                 ELSE "reading"
    /\ lateAttempts' =
          IF taskPc \in {"insert", "touch"} /\ mainDb = "closed"
          THEN lateAttempts \cup {"write"}
          ELSE IF taskPc = "publish" /\ mainRedis = "closed"
          THEN lateAttempts \cup {"publish"}
          ELSE lateAttempts
    /\ lateEffects' =
          IF /\ mainCtxCancelled
             /\ ~HandlerContextDone(mainCtxCancelled)
             /\ IF taskPc = "publish" THEN mainRedis = "open" ELSE mainDb = "open"
          THEN lateEffects \cup {taskPc}
          ELSE lateEffects
    /\ UNCHANGED <<mainPc, mainResult, mainExit, mainSyncEnabled, mainActiveSymbols, mainDb,
                   mainRedis, mainCtxCancelled, mainStopped, mainTrace, taskHandled>>
    /\ UNCHANGED nonMainVars
    /\ UNCHANGED component

\* websocket.go:86-92 with stream.go:70-75: the streaming client gives up after
\* max_reconnect_attempts failed dials: Start returns the error, which the
\* goroutine of the stream service logs.
TaskExhausted ==
    /\ component = "main"
    /\ mainPc # "exited"
    /\ taskPc = "reading"
    /\ taskPc' = "exhausted"
    /\ UNCHANGED <<mainPc, mainResult, mainExit, mainSyncEnabled, mainActiveSymbols, mainDb,
                   mainRedis, mainCtxCancelled, mainStopped, mainTrace, taskHandled,
                   lateAttempts, lateEffects>>
    /\ UNCHANGED nonMainVars
    /\ UNCHANGED component

\* websocket.go:71-130, 136-144: after the shutdown the read loop ends and Start
\* returns.
TaskReturn ==
    /\ component = "main"
    /\ mainPc # "exited"
    /\ taskPc = "reading"
    /\ mainCtxCancelled \/ mainStopped
    /\ taskPc' = "returned"
    /\ UNCHANGED <<mainPc, mainResult, mainExit, mainSyncEnabled, mainActiveSymbols, mainDb,
                   mainRedis, mainCtxCancelled, mainStopped, mainTrace, taskHandled,
                   lateAttempts, lateEffects>>
    /\ UNCHANGED nonMainVars
    /\ UNCHANGED component

NextMain ==
    \/ RunSetup
    \/ LoadSymbols
    \/ PublishRoster
    \/ StartStream
    \/ Shutdown
    \/ ReleaseBus
    \/ ReleasePool
    \/ ProcessExit
    \/ TaskReadFrame
    \/ HandlerStep
    \/ TaskExhausted
    \/ TaskReturn

(***************************************************************************)
(* The stream names: BuildStreamNames.                                     *)
(*                                                                         *)
(* A symbol is a sequence of letters; a stream name is the sequence of the *)
(* symbol's letters followed by the pieces the format adds to them.        *)
(***************************************************************************)
UpperLetters == {"B", "T"}
LowerLetters == {"b", "t"}
Letters == UpperLetters \cup LowerLetters
SymbolTexts == {<<c>> : c \in Letters} \cup {<<c, d>> : c \in Letters, d \in {"T", "t"}}
IntervalTexts == {"1m", "1h"}

\* All the lists of at most n elements of a set.
ListsUpTo(S, n) == UNION {[1..k -> S] : k \in 0..n}

\* websocket.go:278: strings.ToLower, letter by letter.
ToLowerLetterKept(c) == c
ToLowerLetter(c) ==
    CASE c = "B" -> "b"
      [] c = "T" -> "t"
      [] OTHER -> c
ToLower(symbol) == [i \in DOMAIN symbol |-> ToLowerLetter(symbol[i])]

\* websocket.go:283, 287, 290, 293: the four formats.
KlineStream(symbolLower, interval) == symbolLower \o <<"@kline_", interval>>
TickerStream(symbolLower) == symbolLower \o <<"@ticker">>
DepthStream(symbolLower) == symbolLower \o <<"@depth@1000ms">>
AggTradeStream(symbolLower) == symbolLower \o <<"@aggTrade">>

\* websocket.go:276-294: the names appended for one symbol.
StreamsOfSymbol(symbol, intervals) ==
    LET symbolLower == ToLower(symbol)
    IN  [i \in 1..Len(intervals) |-> KlineStream(symbolLower, intervals[i])]
            \o <<TickerStream(symbolLower), DepthStream(symbolLower),
                 AggTradeStream(symbolLower)>>

\* websocket.go:272-297.
RECURSIVE BuildStreamNames(_, _)
BuildStreamNames(symbols, intervals) ==
    IF symbols = <<>> THEN <<>>
    ELSE StreamsOfSymbol(Head(symbols), intervals)
             \o BuildStreamNames(Tail(symbols), intervals)

\* websocket.go:309: strings.ToUpper, letter by letter.
ToUpperLetter(c) ==
    CASE c = "b" -> "B"
      [] c = "t" -> "T"
      [] OTHER -> c
ToUpper(text) == [i \in DOMAIN text |-> ToUpperLetter(text[i])]

\* websocket.go:302: strings.Split(fullStream, "@"), for the pieces of a name
\* that hold an "@": the parts that follow the part before the piece.
PartsAfter(piece) ==
    CASE piece = "@kline_" -> <<"kline_">>
      [] piece = "@ticker" -> <<"ticker">>
      [] piece = "@depth@1000ms" -> <<"depth", "1000ms">>
      [] piece = "@aggTrade" -> <<"aggTrade">>
      [] OTHER -> <<>>

\* websocket.go:310: streamType = parts[1].
StreamTypeLastPart(parts) == parts[Len(parts)]
StreamTypePart(parts) == parts[1]

\* websocket.go:299-319: GetStreamName: the symbol in upper case, the type and,
\* for a candle stream, the interval; nothing for a name without "@".
GetStreamName(stream) ==
    LET at == {i \in DOMAIN stream : PartsAfter(stream[i]) # <<>>}
    IN  IF at = {}
        THEN [symbol |-> <<>>, streamType |-> "", interval |-> ""]
        ELSE LET i == CHOOSE j \in at : \A k \in at : j <= k
                 part == StreamTypePart(PartsAfter(stream[i]))
             IN  [symbol |-> ToUpper(SubSeq(stream, 1, i - 1)),
                  streamType |-> IF part = "kline_" THEN "kline" ELSE part,
                  interval |-> IF part = "kline_" /\ i < Len(stream)
                               THEN stream[i + 1] ELSE ""]

\* stream.go:81-103: the handler registerStreamHandler registers for a stream:
\* none when the type is not one of the four.
HandlerKinds == {"kline", "ticker", "depth", "aggTrade"}
HandlersOf(stream) ==
    LET name == GetStreamName(stream)
    IN  IF name.streamType \in HandlerKinds
        THEN {[stream |-> stream, kind |-> name.streamType, symbol |-> name.symbol,
               interval |-> name.interval]}
        ELSE {}

NamesStart ==
    /\ namesPc = "idle"
    /\ namesSymbols \in ListsUpTo(SymbolTexts, MaxSymbols)
    /\ namesIntervals \in ListsUpTo(IntervalTexts, MaxIntervals)
    /\ namesIdx = 0
    /\ streams = <<>>
    /\ namesHandlers = {}

\* websocket.go:272-276: the call.
BuildCall ==
    /\ component = "names"
    /\ namesPc = "idle"
    /\ namesPc' = "loop"
    /\ UNCHANGED <<namesSymbols, namesIntervals, namesIdx, streams, namesHandlers>>
    /\ UNCHANGED nonNamesVars
    /\ UNCHANGED component

\* websocket.go:276-294: one pass of the loop over the symbols.
BuildSymbol ==
    /\ component = "names"
    /\ namesPc = "loop"
    /\ namesIdx < Len(namesSymbols)
    /\ streams' = streams \o StreamsOfSymbol(namesSymbols[namesIdx + 1], namesIntervals)
    /\ namesIdx' = namesIdx + 1
    /\ UNCHANGED <<namesPc, namesSymbols, namesIntervals, namesHandlers>>
    /\ UNCHANGED nonNamesVars
    /\ UNCHANGED component

\* websocket.go:296: the names are returned.
BuildReturn ==
    /\ component = "names"
    /\ namesPc = "loop"
    /\ namesIdx = Len(namesSymbols)
    /\ namesPc' = "returned"
    /\ UNCHANGED <<namesSymbols, namesIntervals, namesIdx, streams, namesHandlers>>
    /\ UNCHANGED nonNamesVars
    /\ UNCHANGED component

\* stream.go:65-68 with websocket.go:231-236: the handlers are registered, one
\* call of RegisterHandler per stream name; the map keeps one handler per name.
RegisterHandlers ==
    /\ component = "names"
    /\ namesPc = "returned"
    /\ namesSymbols # <<>>
    /\ namesHandlers' = UNION {HandlersOf(streams[i]) : i \in DOMAIN streams}
    /\ namesPc' = "registered"
    /\ UNCHANGED <<namesSymbols, namesIntervals, namesIdx, streams>>
    /\ UNCHANGED nonNamesVars
    /\ UNCHANGED component

\* stream.go:70-75: the streaming client is started in a goroutine of its own.
StartClient ==
    /\ component = "names"
    /\ namesPc = "registered"
    /\ namesPc' = "started"
    /\ UNCHANGED <<namesSymbols, namesIntervals, namesIdx, streams, namesHandlers>>
    /\ UNCHANGED nonNamesVars
    /\ UNCHANGED component

NextNames ==
    \/ BuildCall
    \/ BuildSymbol
    \/ BuildReturn
    \/ RegisterHandlers
    \/ StartClient

(***************************************************************************)
(* The publisher: PublishKline, PublishTicker and PublishDepth.            *)
(*                                                                         *)
(* Each kind of message has one channel and one latest-cache key here (one *)
(* symbol, one interval); pubBus counts the messages per kind and          *)
(* timestamp, pubLatest holds per kind Nil or the timestamp of the cached  *)
(* message.                                                                *)
(***************************************************************************)
PublishKinds == {"kline", "ticker", "depth"}

\* part_014:150-158: only PublishDepth parses its argument before it publishes.
CanFailToParse(kind) == kind = "depth"

\* part_014:58-72, 129-142, 179-192: what the publish call returns.
PublishReturns(parsed, publishOk) ==
    IF ~parsed THEN "parseError"
    ELSE IF ~publishOk THEN "publishError"
    ELSE "nil"

NoPublish ==
    [n |-> 0, kind |-> "kline", T |-> 1, parsed |-> TRUE, publishOk |-> TRUE,
     cacheOk |-> TRUE, result |-> "none"]

PublisherStart ==
    /\ pubBus = [k \in PublishKinds |-> [t \in OpenTimes |-> 0]]
    /\ pubLatest = [k \in PublishKinds |-> Nil]
    /\ pubLast = NoPublish

\* part_014:29-73, 76-143, 146-193: one call of a publish method, from the
\* construction of the message to the return.
PublishCall ==
    /\ component = "publisher"
    /\ pubLast.n < MaxPublishes
    /\ \E kind \in PublishKinds, t \in OpenTimes, parsed, publishOk, cacheOk \in BOOLEAN :
          /\ ~CanFailToParse(kind) => parsed
          /\ ~parsed => (publishOk /\ cacheOk)
          /\ ~publishOk => cacheOk
          /\ pubBus' = IF parsed THEN Publish(pubBus, kind, t, publishOk) ELSE pubBus
          /\ pubLatest' = IF parsed
                          THEN CacheLatest(pubLatest, kind, t, publishOk, cacheOk)
                          ELSE pubLatest
          /\ pubLast' = [n |-> pubLast.n + 1, kind |-> kind, T |-> t, parsed |-> parsed,
                         publishOk |-> publishOk, cacheOk |-> cacheOk,
                         result |-> PublishReturns(parsed, publishOk)]
    /\ UNCHANGED nonPublisherVars
    /\ UNCHANGED component

NextPublisher ==
    \/ PublishCall

(***************************************************************************)
(* The REST client's rate limiter: NewRESTClient and doRequest.            *)
(*                                                                         *)
(* Time is counted in ticks of 60/R seconds, R = rest_rate_limit: the      *)
(* bucket gains one token per tick and a 60-second window is R ticks.      *)
(* A call that finds no token reserves the next one (the count of tokens   *)
(* goes below zero) and waits for the tick at which it is due; a call      *)
(* issues its request in the tick in which it got its token.               *)
(***************************************************************************)
Ticks == 0..MaxTicks

\* rest.go:30-31: the bucket holds at most rest_rate_limit tokens and gains
\* rest_rate_limit / 60 tokens per second: one per tick.
RefillUncapped(tokens, burst) == tokens + 1
Refill(tokens, burst) == Min(burst, tokens + 1)

\* rest.go:47: the tick at which a call that reserves a token now may go on: at
\* once when a token is there, otherwise when the reserved token has arrived.
TimeToAct(tokens, now) == IF tokens >= 1 THEN now ELSE now + (1 - tokens)

NoRestCall == [n |-> 0, outcome |-> "none"]

\* The requests issued in the ticks from..to.
RECURSIVE IssuedIn(_, _, _)
IssuedIn(issued, from, to) ==
    IF from > to THEN 0 ELSE issued[from] + IssuedIn(issued, from + 1, to)

RestStart ==
    /\ restR \in 0..MaxRate
    /\ restTokens = restR
    /\ restNow = 0
    /\ restWaiters = {}
    /\ restLastEvent = 0
    /\ restIssued = [t \in Ticks |-> 0]
    /\ restLast = NoRestCall

\* rest.go:44-69: doRequest is called: a context that is already done and a bucket
\* without capacity make Wait return an error; a call that finds a token issues
\* its request; another one reserves the next token and waits.
DoRequestCall ==
    /\ component = "rest"
    /\ restLast.n < MaxRestCalls
    /\ \E ctxDone \in BOOLEAN :
          LET outcome == IF ctxDone THEN "cancelled"
                         ELSE IF restR = 0 THEN "refused"
                         ELSE IF restTokens >= 1 THEN "issued"
                         ELSE "waiting"
              due == TimeToAct(restTokens, restNow)
          IN  /\ outcome = "waiting" => due <= MaxTicks
              /\ restLast' = [n |-> restLast.n + 1, outcome |-> outcome]
              /\ restTokens' = IF outcome \in {"issued", "waiting"}
                               THEN restTokens - 1 ELSE restTokens
              /\ restLastEvent' = IF outcome \in {"issued", "waiting"}
                                  THEN due ELSE restLastEvent
              /\ restWaiters' = IF outcome = "waiting"
                                THEN restWaiters \cup {due} ELSE restWaiters
              /\ restIssued' = IF outcome = "issued"
                               THEN [restIssued EXCEPT ![restNow] = @ + 1]
                               ELSE restIssued
    /\ UNCHANGED <<restR, restNow>>
    /\ UNCHANGED nonRestVars
    /\ UNCHANGED component

\* rest.go:47-69: the token a waiting call reserved has arrived: Wait returns nil
\* and the request is issued.
WaitElapsed ==
    /\ component = "rest"
    /\ \E due \in restWaiters :
          /\ due <= restNow
          /\ restWaiters' = restWaiters \ {due}
          /\ restIssued' = [restIssued EXCEPT ![restNow] = @ + 1]
          /\ restLast' = [restLast EXCEPT !.outcome = "issuedAfterWait"]
    /\ UNCHANGED <<restR, restTokens, restNow, restLastEvent>>
    /\ UNCHANGED nonRestVars
    /\ UNCHANGED component

\* rest.go:47-50: the context of a waiting call is cancelled: Wait gives the
\* reservation up (the token goes back when no later call has reserved after
\* it) and returns the context's error; doRequest returns without a request.
WaitCancelled ==
    /\ component = "rest"
    /\ \E due \in restWaiters :
          /\ due >= restNow
          /\ restWaiters' = restWaiters \ {due}
          /\ restTokens' = IF restLastEvent = due THEN restTokens + 1 ELSE restTokens
          /\ restLastEvent' = IF restLastEvent = due /\ due - 1 >= restNow
                              THEN due - 1 ELSE restLastEvent
          /\ restLast' = [restLast EXCEPT !.outcome = "cancelledWaiting"]
    /\ UNCHANGED <<restR, restNow, restIssued>>
    /\ UNCHANGED nonRestVars
    /\ UNCHANGED component

\* A tick passes: the bucket gains a token. The calls that were due have gone on.
RestTick ==
    /\ component = "rest"
    /\ restNow < MaxTicks
    /\ \A due \in restWaiters : due > restNow
    /\ restNow' = restNow + 1
    /\ restTokens' = Refill(restTokens, restR)
    /\ UNCHANGED <<restR, restWaiters, restLastEvent, restIssued, restLast>>
    /\ UNCHANGED nonRestVars
    /\ UNCHANGED component

NextRest ==
    \/ DoRequestCall
    \/ WaitElapsed
    \/ WaitCancelled
    \/ RestTick

(***************************************************************************)
(* One pair's backfill, batch by batch: syncKlinesForSymbol from the       *)
(* request to the checkpoint.                                              *)
(*                                                                         *)
(* Open times are counted in intervals: the rows of a response have the    *)
(* open times base + 1 .. base + n, base being the last open time of the   *)
(* batch before. The store holds the candles 1..bfStored of the pair.      *)
(* bfCheckpoint.exists tells whether the pair has a checkpoint row.        *)
(***************************************************************************)
BatchLens == {1, maxBatchSize, maxBatchSize + 1, MaxBatchLen}
RowShapes == {"ok", "arity", "type"}

\* types.go:7-22: ParseKlineResponse indexes the row and asserts the type of each
\* field without a test: a short row, or a field of another type, panics.
ParseKlineResponse(shape) == IF shape = "ok" THEN "ok" ELSE "panic"

\* data_sync.go:192-211: the decoding loop over the rows of a response, one of
\* which has the shape given, the others being well formed.
AfterDecode(shape) == IF ParseKlineResponse(shape) = "panic" THEN "panic" ELSE "insert"

\* data_sync.go:216-219: an error of BatchInsert is returned.
AfterInsertContinue(outcome) == "delay"
AfterInsert(outcome) == IF outcome = "ok" THEN "delay" ELSE "error"

\* kline.go:61-93: the rows committed when BatchInsert fails: the chunks before
\* the failing one, none when the batch is one transaction.
CommittedPrefixes(n) ==
    IF NeedsChunking("kline", n)
    THEN {k * maxBatchSize : k \in 0..((n - 1) \div maxBatchSize)}
    ELSE {0}

\* data_sync.go:223, 232-241: the checkpoint written after a batch: the open time
\* of the last decoded row, status active, no error message.
NoMessage == "NULL"
CheckpointAfterBatchKeepMessage(old, lastOpenTime) ==
    [exists |-> TRUE, last_data_time |-> lastOpenTime, status |-> "active",
     error_message |-> old.error_message]
CheckpointAfterBatch(old, lastOpenTime) ==
    [exists |-> TRUE, last_data_time |-> lastOpenTime, status |-> "active",
     error_message |-> NoMessage]

NoCheckpointRow ==
    [exists |-> FALSE, last_data_time |-> 0, status |-> "none", error_message |-> NoMessage]
StartCheckpoints ==
    {NoCheckpointRow,
     [exists |-> TRUE, last_data_time |-> 0, status |-> "pending",
      error_message |-> NoMessage],
     [exists |-> TRUE, last_data_time |-> 0, status |-> "error",
      error_message |-> "timeout"]}

NoRows == [n |-> 0, shape |-> "ok"]

BackfillStart ==
    /\ bfPc = "loop"
    /\ bfRows = NoRows
    /\ bfStored = 0
    /\ bfCheckpoint \in StartCheckpoints
    /\ bfRun = [requests |-> 0, base |-> 0, before |-> bfCheckpoint, result |-> "none"]

\* data_sync.go:164-190: the top of the loop and the request: a cancelled context
\* and a failed request return the error, an empty response ends the loop.
BackfillFetch ==
    /\ component = "backfill"
    /\ bfPc = "loop"
    /\ bfRun.requests < MaxBatches
    /\ \E outcome \in {"cancelled", "fetchError", "empty", "rows"},
          n \in BatchLens, shape \in RowShapes :
          /\ outcome # "rows" => (n = 1 /\ shape = "ok")
          /\ bfRows' = IF outcome = "rows" THEN [n |-> n, shape |-> shape] ELSE NoRows
          /\ bfPc' = IF outcome = "rows" THEN "decode"
                     ELSE IF outcome = "empty" THEN "nil" ELSE "error"
          /\ bfRun' = [bfRun EXCEPT
                         !.requests = IF outcome = "cancelled" THEN @ ELSE @ + 1,
                         !.before = bfCheckpoint,
                         !.result = outcome]
    /\ UNCHANGED <<bfStored, bfCheckpoint>>
    /\ UNCHANGED nonBackfillVars
    /\ UNCHANGED component

\* data_sync.go:164, 250-256: the window is exhausted: nil is returned.
BackfillDone ==
    /\ component = "backfill"
    /\ bfPc = "loop"
    /\ bfPc' = "nil"
    /\ bfRun' = [bfRun EXCEPT !.result = "nil"]
    /\ UNCHANGED <<bfRows, bfStored, bfCheckpoint>>
    /\ UNCHANGED nonBackfillVars
    /\ UNCHANGED component

\* data_sync.go:192-211 with types.go:7-22: the rows are decoded; the panic of
\* ParseKlineResponse is not recovered and ends the process.
BackfillDecode ==
    /\ component = "backfill"
    /\ bfPc = "decode"
    /\ bfPc' = AfterDecode(bfRows.shape)
    /\ bfRun' = [bfRun EXCEPT !.result = IF AfterDecode(bfRows.shape) = "panic"
                                         THEN "panic" ELSE "decoded"]
    /\ UNCHANGED <<bfRows, bfStored, bfCheckpoint>>
    /\ UNCHANGED nonBackfillVars
    /\ UNCHANGED component

\* data_sync.go:213-221 with kline.go:55-93: BatchInsert: on an error the chunks
\* before the failing one stay committed and the error is returned.
BackfillInsert ==
    /\ component = "backfill"
    /\ bfPc = "insert"
    /\ \E outcome \in {"ok", "insertError"} :
          /\ bfPc' = AfterInsert(outcome)
          /\ bfRun' = [bfRun EXCEPT !.result = outcome]
          /\ IF outcome = "ok"
             THEN bfStored' = Max(bfStored, bfRun.base + bfRows.n)
             ELSE \E committed \in CommittedPrefixes(bfRows.n) :
                     bfStored' = IF committed = 0 THEN bfStored
                                 ELSE Max(bfStored, bfRun.base + committed)
    /\ UNCHANGED <<bfRows, bfCheckpoint>>
    /\ UNCHANGED nonBackfillVars
    /\ UNCHANGED component

\* data_sync.go:223-247: the delay and the checkpoint: a context cancelled in
\* the delay returns its error; a failed checkpoint write is logged only; the
\* next pass starts after the batch.
BackfillCheckpoint ==
    /\ component = "backfill"
    /\ bfPc = "delay"
    /\ \E outcome \in {"cancelled", "checkpointed", "checkpointError"} :
          /\ bfPc' = IF outcome = "cancelled" THEN "error" ELSE "loop"
          /\ bfCheckpoint' = IF outcome = "checkpointed"
                             THEN CheckpointAfterBatch(bfCheckpoint,
                                                       bfRun.base + bfRows.n)
                             ELSE bfCheckpoint
          /\ bfRun' = [bfRun EXCEPT
                         !.base = IF outcome = "cancelled" THEN @ ELSE @ + bfRows.n,
                         !.result = outcome]
          /\ bfRows' = IF outcome = "cancelled" THEN bfRows ELSE NoRows
    /\ UNCHANGED bfStored
    /\ UNCHANGED nonBackfillVars
    /\ UNCHANGED component

NextBackfill ==
    \/ BackfillFetch
    \/ BackfillDone
    \/ BackfillDecode
    \/ BackfillInsert
    \/ BackfillCheckpoint

(***************************************************************************)
(* The event handlers of the stream service: one event from its decoding   *)
(* to the return of the handler (stream.go:106-287).                       *)
(*                                                                         *)
(* A numeric field of an event is a text; a parsed number is counted in    *)
(* tenths. A candle and a ticker carry a price and a quantity, standing    *)
(* for all their numeric fields; a depth event carries its bids and asks,  *)
(* each a list of <<price text, quantity text>>.                           *)
(***************************************************************************)
NumTexts == {"1.5", "2", "abc", ""}
LevelTexts == {"1.5", "2"}

\* strconv.ParseFloat as the converters call it (stream.go:216-223, 244-254): the
\* value, and whether an error was returned; the value is 0 on a syntax error.
ParseFloat(text) ==
    CASE text = "1.5" -> [value |-> 15, err |-> FALSE]
      [] text = "2" -> [value |-> 20, err |-> FALSE]
      [] OTHER -> [value |-> 0, err |-> TRUE]

Levels == {<<p, q>> : p \in LevelTexts, q \in {"2"}} \cup {<<"2", "1.5">>}
LevelLists == UNION {[1..n -> Levels] : n \in 0..MaxLevels}

\* stream.go:276-277: json.Marshal of a list of levels: the text, piece by piece.
RECURSIVE MarshalLevelsFrom(_, _)
MarshalLevelsFrom(levels, i) ==
    IF i > Len(levels) THEN <<>>
    ELSE (IF i > 1 THEN <<",">> ELSE <<>>)
         \o <<"[", levels[i][1], ",", levels[i][2], "]">>
         \o MarshalLevelsFrom(levels, i + 1)
MarshalLevels(levels) == <<"[">> \o MarshalLevelsFrom(levels, 1) \o <<"]">>

\* The levels a text of that form stands for, as typed price levels.
TypedLevels(levels) ==
    [i \in DOMAIN levels |-> [price |-> ParseFloat(levels[i][1]).value,
                              quantity |-> ParseFloat(levels[i][2]).value]]

\* part_014:246-253: parsePriceLevels returns an empty list and no error,
\* whatever the text.
parsePriceLevels(jsonData) == <<>>

\* stream.go:215-273: convertWSKlineToModel and convertWSTickerToModel drop the
\* error of every ParseFloat and return a nil error; stream.go:275-287:
\* convertWSDepthToModel keeps the bids and asks as their serialized text.
ConvertError(event) == FALSE
ConvertToModel(event) ==
    [kind |-> event.kind,
     price |-> ParseFloat(event.price).value,
     quantity |-> ParseFloat(event.quantity).value,
     Bids |-> IF event.kind = "depth" THEN MarshalLevels(event.bids) ELSE <<>>,
     Asks |-> IF event.kind = "depth" THEN MarshalLevels(event.asks) ELSE <<>>]

\* part_014:29-54, 100-125, 146-178: the envelope published for a model.
Envelope(model) ==
    [kind |-> model.kind, price |-> model.price, quantity |-> model.quantity,
     bids |-> parsePriceLevels(model.Bids), asks |-> parsePriceLevels(model.Asks)]

\* The events a handler is called with: decodable as JSON or not.
EventInputs ==
    {[kind |-> k, jsonOk |-> j, closed |-> c, price |-> p, quantity |-> q,
      bids |-> <<>>, asks |-> <<>>] :
        k \in {"kline", "ticker"}, j \in BOOLEAN, c \in BOOLEAN,
        p \in NumTexts, q \in NumTexts}
    \cup
    {[kind |-> "depth", jsonOk |-> j, closed |-> FALSE, price |-> "2", quantity |-> "2",
      bids |-> b, asks |-> a] : j \in BOOLEAN, b \in LevelLists, a \in LevelLists}

NoEffects == [writes |-> <<>>, publishes |-> <<>>, touched |-> FALSE, result |-> "none"]

EventsStart ==
    /\ evPc = "received"
    /\ evEvent \in EventInputs
    /\ evRun = NoEffects

\* stream.go:107-121, 144-154, 169-179: the event is decoded and converted: a
\* JSON error and a conversion error are returned, a candle that is not closed
\* ends the handler.
EventDecode ==
    /\ component = "events"
    /\ evPc = "received"
    /\ IF ~evEvent.jsonOk \/ ConvertError(evEvent)
       THEN /\ evPc' = "returned"
            /\ evRun' = [evRun EXCEPT !.result = "error"]
       ELSE IF evEvent.kind = "kline" /\ ~evEvent.closed
       THEN /\ evPc' = "returned"
            /\ evRun' = [evRun EXCEPT !.result = "nil"]
       ELSE /\ evPc' = IF evEvent.kind = "depth" THEN "publish" ELSE "store"
            /\ UNCHANGED evRun
    /\ UNCHANGED evEvent
    /\ UNCHANGED nonEventsVars
    /\ UNCHANGED component

\* stream.go:123-127, 156-160: the model is inserted; an error is logged.
EventStore ==
    /\ component = "events"
    /\ evPc = "store"
    /\ \E ok \in BOOLEAN :
          evRun' = IF ok
                   THEN [evRun EXCEPT !.writes = Append(@, ConvertToModel(evEvent))]
                   ELSE evRun
    /\ evPc' = "publish"
    /\ UNCHANGED evEvent
    /\ UNCHANGED nonEventsVars
    /\ UNCHANGED component

\* stream.go:129-132, 162-165, 181-185: the model is published; an error is
\* logged. The ticker and depth handlers return nil after it.
EventPublish ==
    /\ component = "events"
    /\ evPc = "publish"
    /\ \E ok \in BOOLEAN :
          evRun' = [evRun EXCEPT
                      !.publishes = IF ok THEN Append(@, Envelope(ConvertToModel(evEvent)))
                                    ELSE @,
                      !.result = IF evEvent.kind = "kline" THEN @ ELSE "nil"]
    /\ evPc' = IF evEvent.kind = "kline" THEN "touch" ELSE "returned"
    /\ UNCHANGED evEvent
    /\ UNCHANGED nonEventsVars
    /\ UNCHANGED component

\* stream.go:134-139: the candle handler updates the checkpoint and returns nil.
EventTouch ==
    /\ component = "events"
    /\ evPc = "touch"
    /\ \E ok \in BOOLEAN :
          evRun' = [evRun EXCEPT !.touched = ok, !.result = "nil"]
    /\ evPc' = "returned"
    /\ UNCHANGED evEvent
    /\ UNCHANGED nonEventsVars
    /\ UNCHANGED component

NextEvents ==
    \/ EventDecode
    \/ EventStore
    \/ EventPublish
    \/ EventTouch

(***************************************************************************)
(* The checkpoint repository on the table sync_status (part_012 with      *)
(* sql/queries/sync_status.sql and sql/schemas/sync_status.sql).           *)
(*                                                                         *)
(* An interval argument is a *string: absent (nil) or a text. The store is *)
(* available: a statement fails only when it breaks a constraint.          *)
(***************************************************************************)
StatusKeys == {<<"BTCUSDT", "kline">>, <<"BTCUSDT", "ticker">>}
IntervalArgs ==
    {[present |-> FALSE, text |-> ""], [present |-> TRUE, text |-> ""],
     [present |-> TRUE, text |-> "1m"]}
StatusTimes == 1..2
StatusValues == {[status |-> "active", error_message |-> NoMessage],
                 [status |-> "error", error_message |-> "timeout"]}

\* part_012:35-38, 73-76, 105-108: the parameter bound for an interval argument:
\* an sql.NullString, invalid (NULL) when the argument is nil.
NullString(arg) == [Valid |-> arg.present, String |-> arg.text]

\* COALESCE(x, '') of the queries.
Coalesce(ns) == IF ns.Valid THEN ns.String ELSE ""

\* sync_status.sql:5, 24: WHERE symbol = $1 AND data_type = $2 AND
\* COALESCE(interval, '') = COALESCE($3, ''); the column is never NULL.
Addressed(rows, key, ns) ==
    {row \in rows : row.key = key /\ row.interval = Coalesce(ns)}

\* sql/schemas/sync_status.sql:5: interval VARCHAR(5) NOT NULL DEFAULT '': a row
\* that names the column with NULL breaks the constraint; the default stands in
\* for a column that is left out only.
BreaksNotNull(ns) == ~ns.Valid

NoStatusRow ==
    [found |-> FALSE, key |-> <<"", "">>, interval |-> "", last_data_time |-> 0,
     status |-> "", error_message |-> NoMessage]
StatusRow(key, interval, t, v) ==
    [found |-> TRUE, key |-> key, interval |-> interval, last_data_time |-> t,
     status |-> v.status, error_message |-> v.error_message]

\* part_012:29-69 with sync_status.sql:1-5: GetSyncStatus: the row addressed, or
\* nothing (pgx.ErrNoRows gives nil, nil).
GetSyncStatus(rows, key, arg) ==
    LET found == Addressed(rows, key, NullString(arg))
    IN  IF found = {} THEN NoStatusRow ELSE CHOOSE row \in found : TRUE

NoStatusCall ==
    [op |-> "none", key |-> <<"", "">>, arg |-> [present |-> TRUE, text |-> ""],
     row |-> NoStatusRow, err |-> FALSE]

StatusStart ==
    /\ ssRows \in {{}, {StatusRow(<<"BTCUSDT", "kline">>, "1m", 1, [status |-> "active",
                                   error_message |-> NoMessage])}}
    /\ ssLast = NoStatusCall
    /\ ssCalls = 0

\* part_012:71-97 with sync_status.sql:7-16: UpsertSyncStatus: INSERT ... ON
\* CONFLICT (symbol, data_type, interval) DO UPDATE; the statement fails on a
\* NULL interval and the error is returned.
StatusUpsert ==
    /\ component = "status"
    /\ ssCalls < MaxStatusCalls
    /\ \E key \in StatusKeys, arg \in IntervalArgs, t \in StatusTimes, v \in StatusValues :
        LET ns == NullString(arg)
            row == StatusRow(key, Coalesce(ns), t, v)
            fails == BreaksNotNull(ns)
        IN  /\ ssRows' = IF fails THEN ssRows
                         ELSE {r \in ssRows : ~(r.key = key /\ r.interval = ns.String)}
                              \cup {row}
            /\ ssLast' = [op |-> "upsert", key |-> key, arg |-> arg, row |-> row,
                          err |-> fails]
    /\ ssCalls' = ssCalls + 1
    /\ UNCHANGED nonStatusVars
    /\ UNCHANGED component

\* part_012:99-122 with sync_status.sql:18-25: UpdateLastDataTime: the row
\* addressed, if any, takes the time, becomes active and loses its message.
StatusTouch ==
    /\ component = "status"
    /\ ssCalls < MaxStatusCalls
    /\ \E key \in StatusKeys, arg \in IntervalArgs, t \in StatusTimes :
        LET hit == Addressed(ssRows, key, NullString(arg))
        IN  /\ ssRows' = (ssRows \ hit)
                            \cup {[r EXCEPT !.last_data_time = t, !.status = "active",
                                            !.error_message = NoMessage] : r \in hit}
            /\ ssLast' = [op |-> "touch", key |-> key, arg |-> arg,
                          row |-> GetSyncStatus(ssRows', key, arg), err |-> FALSE]
    /\ ssCalls' = ssCalls + 1
    /\ UNCHANGED nonStatusVars
    /\ UNCHANGED component

\* part_012:29-69: GetSyncStatus is called.
StatusGet ==
    /\ component = "status"
    /\ ssCalls < MaxStatusCalls
    /\ \E key \in StatusKeys, arg \in IntervalArgs :
          ssLast' = [op |-> "get", key |-> key, arg |-> arg,
                     row |-> GetSyncStatus(ssRows, key, arg), err |-> FALSE]
    /\ ssCalls' = ssCalls + 1
    /\ UNCHANGED ssRows
    /\ UNCHANGED nonStatusVars
    /\ UNCHANGED component

NextStatus ==
    \/ StatusUpsert
    \/ StatusTouch
    \/ StatusGet

(***************************************************************************)
(* The roster of active symbols in the cache: the key                      *)
(* binance:symbols:active from its write at startup on (part_001:184-188,  *)
(* part_014:226-244, part_013:102-117).                                    *)
(*                                                                         *)
(* Time is counted in seconds. A key set with a time to live is gone from  *)
(* the cache once that time has passed; a key set with a time to live of 0 *)
(* is kept without limit.                                                  *)
(***************************************************************************)
Rosters == {<<"BTCUSDT">>, <<"ETHUSDT">>, <<"BTCUSDT", "ETHUSDT">>}

\* part_013:108-110: a ttl argument of 0 is replaced by the client's ttl, which is
\* redis.live_data_ttl seconds (part_013:46).
EffectiveTtl(ttl, clientTtl) == IF ttl = 0 THEN clientTtl ELSE ttl

NoKey == [exists |-> FALSE, value |-> <<>>, expires |-> FALSE, expiresAt |-> 0]

\* part_013:112: client.Set(ctx, key, data, ttl): the key takes the value, with
\* the time to live when it is not 0.
SetKey(value, ttl, now) ==
    [exists |-> TRUE, value |-> value, expires |-> ttl # 0,
     expiresAt |-> IF ttl # 0 THEN now + ttl ELSE 0]

\* The cache after a second has passed.
Expire(key, now) ==
    IF key.exists /\ key.expires /\ now >= key.expiresAt THEN NoKey ELSE key

RosterStart ==
    /\ rsPc = "startup"
    /\ rsTtl \in 0..MaxTtl
    /\ rsSymbols \in Rosters
    /\ rsNow = 0
    /\ rsKey = NoKey
    /\ rsWritten = FALSE

\* part_001:184-188 with part_014:226-244: run publishes the roster once, with a
\* ttl argument of 0; a failure is logged and run goes on.
PublishAllSymbols ==
    /\ component = "roster"
    /\ rsPc = "startup"
    /\ \E ok \in BOOLEAN :
          /\ rsKey' = IF ok THEN SetKey(rsSymbols, EffectiveTtl(0, rsTtl), rsNow)
                      ELSE rsKey
          /\ rsWritten' = ok
    /\ rsPc' = "published"
    /\ UNCHANGED <<rsTtl, rsSymbols, rsNow>>
    /\ UNCHANGED nonRosterVars
    /\ UNCHANGED component

\* part_001: the streaming service is started; nothing writes the key after it.
RosterStreaming ==
    /\ component = "roster"
    /\ rsPc = "published"
    /\ rsPc' = "streaming"
    /\ UNCHANGED <<rsTtl, rsSymbols, rsNow, rsKey, rsWritten>>
    /\ UNCHANGED nonRosterVars
    /\ UNCHANGED component

\* A second passes.
RosterTick ==
    /\ component = "roster"
    /\ rsNow < MaxRosterClock
    /\ rsNow' = rsNow + 1
    /\ rsKey' = Expire(rsKey, rsNow + 1)
    /\ UNCHANGED <<rsPc, rsTtl, rsSymbols, rsWritten>>
    /\ UNCHANGED nonRosterVars
    /\ UNCHANGED component

\* The process stops streaming: a shutdown, or the end of the streaming task.
RosterStop ==
    /\ component = "roster"
    /\ rsPc = "streaming"
    /\ rsPc' = "stopped"
    /\ UNCHANGED <<rsTtl, rsSymbols, rsNow, rsKey, rsWritten>>
    /\ UNCHANGED nonRosterVars
    /\ UNCHANGED component

NextRoster ==
    \/ PublishAllSymbols
    \/ RosterStreaming
    \/ RosterTick
    \/ RosterStop

(***************************************************************************)
(* The specifications: one per component, and their union.                 *)
(***************************************************************************)
WsIdle == WsStart /\ maxReconnectAttempts = 0
RepoIdle == RepoStart /\ bRepo = "kline"
StreamIdle == StreamStart /\ syncStatus = {SeedRow(IdleInterval)}
PoolIdle == PoolStart /\ ~poolEnabled /\ poolWorkers = 0
WindowIdle ==
    /\ WindowStart /\ winNow = 0 /\ winMaxSyncHours = 1 /\ winBatchHours = 1
    /\ winCheckpoint = NoCheckpoint
MainIdle == MainStart /\ ~mainSyncEnabled /\ mainActiveSymbols = 0
NamesIdle == NamesStart /\ namesSymbols = <<>> /\ namesIntervals = <<>>
PublisherIdle == PublisherStart
RestIdle == RestStart /\ restR = 0
BackfillIdle == BackfillStart /\ bfCheckpoint = NoCheckpointRow
EventsIdle ==
    /\ EventsStart
    /\ evEvent = [kind |-> "kline", jsonOk |-> FALSE, closed |-> FALSE, price |-> "",
                  quantity |-> "", bids |-> <<>>, asks |-> <<>>]
StatusIdle == StatusStart /\ ssRows = {}
RosterIdle == RosterStart /\ rsTtl = 0 /\ rsSymbols = <<"BTCUSDT">>
ExtIdle == PoolIdle /\ WindowIdle /\ MainIdle /\ NamesIdle /\ PublisherIdle /\ RestIdle
    /\ BackfillIdle /\ EventsIdle /\ StatusIdle /\ RosterIdle

InitWS == component = "ws" /\ WsStart /\ RepoIdle /\ StreamIdle /\ ExtIdle
InitRepo == component = "repo" /\ WsIdle /\ RepoStart /\ StreamIdle /\ ExtIdle
InitChunks == component = "chunks" /\ WsIdle /\ RepoStart /\ StreamIdle /\ ExtIdle
InitStream == component = "stream" /\ WsIdle /\ RepoIdle /\ StreamStart /\ ExtIdle
InitSync == component = "sync" /\ WsIdle /\ RepoIdle /\ StreamStart /\ ExtIdle
InitPool == component = "pool" /\ WsIdle /\ RepoIdle /\ StreamIdle /\ PoolStart /\
    WindowIdle /\ MainIdle /\ NamesIdle /\ PublisherIdle /\ RestIdle /\ BackfillIdle /\
    EventsIdle /\ StatusIdle /\ RosterIdle
InitWindow == component = "window" /\ WsIdle /\ RepoIdle /\ StreamIdle /\ PoolIdle /\
    WindowStart /\ MainIdle /\ NamesIdle /\ PublisherIdle /\ RestIdle /\ BackfillIdle /\
    EventsIdle /\ StatusIdle /\ RosterIdle
InitMain == component = "main" /\ WsIdle /\ RepoIdle /\ StreamIdle /\ PoolIdle /\
    WindowIdle /\ MainStart /\ NamesIdle /\ PublisherIdle /\ RestIdle /\ BackfillIdle /\
    EventsIdle /\ StatusIdle /\ RosterIdle
InitNames == component = "names" /\ WsIdle /\ RepoIdle /\ StreamIdle /\ PoolIdle /\
    WindowIdle /\ MainIdle /\ NamesStart /\ PublisherIdle /\ RestIdle /\ BackfillIdle /\
    EventsIdle /\ StatusIdle /\ RosterIdle
InitPublisher == component = "publisher" /\ WsIdle /\ RepoIdle /\ StreamIdle /\ PoolIdle
    /\ WindowIdle /\ MainIdle /\ NamesIdle /\ PublisherStart /\ RestIdle /\ BackfillIdle
    /\ EventsIdle /\ StatusIdle /\ RosterIdle
InitRest == component = "rest" /\ WsIdle /\ RepoIdle /\ StreamIdle /\ PoolIdle /\
    WindowIdle /\ MainIdle /\ NamesIdle /\ PublisherIdle /\ RestStart /\ BackfillIdle /\
    EventsIdle /\ StatusIdle /\ RosterIdle
InitBackfill == component = "backfill" /\ WsIdle /\ RepoIdle /\ StreamIdle /\ PoolIdle
    /\ WindowIdle /\ MainIdle /\ NamesIdle /\ PublisherIdle /\ RestIdle /\ BackfillStart
    /\ EventsIdle /\ StatusIdle /\ RosterIdle
InitEvents == component = "events" /\ WsIdle /\ RepoIdle /\ StreamIdle /\ PoolIdle /\
    WindowIdle /\ MainIdle /\ NamesIdle /\ PublisherIdle /\ RestIdle /\ BackfillIdle /\
    EventsStart /\ StatusIdle /\ RosterIdle
InitStatus == component = "status" /\ WsIdle /\ RepoIdle /\ StreamIdle /\ PoolIdle /\
    WindowIdle /\ MainIdle /\ NamesIdle /\ PublisherIdle /\ RestIdle /\ BackfillIdle /\
    EventsIdle /\ StatusStart /\ RosterIdle
InitRoster == component = "roster" /\ WsIdle /\ RepoIdle /\ StreamIdle /\ PoolIdle /\
    WindowIdle /\ MainIdle /\ NamesIdle /\ PublisherIdle /\ RestIdle /\ BackfillIdle /\
    EventsIdle /\ StatusIdle /\ RosterStart

SpecWS == InitWS /\ [][NextWS]_vars

\* websocket.go:155: ReadMessage on a socket that was closed returns an error.
ReadOnClosedSocket == ReadError /\ readConn \in closedSockets

\* The client under a fair scheduler: every step of Start, of the handlers, of
\* Close and of the ping tasks that can be taken is taken in the end, a dial
\* returns, and a read on a closed socket returns. What the peer sends, and
\* whether the caller cancels or closes, is left open.
FairSpecWS ==
    /\ SpecWS
    /\ WF_vars(StartSelect)
    /\ WF_vars(DialFail \/ DialSucceed)
    /\ WF_vars(SleepElapsed)
    /\ WF_vars(ReadSelect)
    /\ WF_vars(HandlerReturn)
    /\ WF_vars(LogHandlerError)
    /\ WF_vars(ReadOnClosedSocket)
    /\ WF_vars(CooldownSelect)
    /\ WF_vars(CloseConn)
    /\ WF_vars(PingExit)
SpecRepo == InitRepo /\ [][NextRepo]_vars
SpecChunks == InitChunks /\ [][NextChunks]_vars
SpecStream == InitStream /\ [][NextStream]_vars
SpecSync == InitSync /\ [][NextSync]_vars
SpecPool == InitPool /\ [][NextPool]_vars

\* The coordinator under a fair scheduler: a goroutine that can take its next
\* step takes it in the end, and every call of syncKlinesForSymbol returns.
\* Whether a pair fails and whether the context is cancelled is left open.
FairSpecPool ==
    /\ SpecPool
    /\ WF_vars(SyncMissingDataCall)
    /\ \A p \in Pairs : WF_vars(Acquire(p))
    /\ \A p \in Pairs : WF_vars(StaggerElapsed(p))
    /\ \A p \in Pairs : WF_vars(SyncReturn(p))
    /\ WF_vars(WaitReturn)
SpecWindow == InitWindow /\ [][NextWindow]_vars
SpecMain == InitMain /\ [][NextMain]_vars

\* The supervisor under a fair scheduler: every step of run, of main and of the
\* handlers that can be taken is taken in the end, and the streaming task
\* returns after a shutdown. When the shutdown signal arrives, what the peer
\* sends and whether the dials fail is left open.
FairSpecMain ==
    /\ SpecMain
    /\ WF_vars(RunSetup)
    /\ WF_vars(LoadSymbols)
    /\ WF_vars(PublishRoster)
    /\ WF_vars(StartStream)
    /\ WF_vars(ReleaseBus)
    /\ WF_vars(ReleasePool)
    /\ WF_vars(ProcessExit)
    /\ WF_vars(HandlerStep)
    /\ WF_vars(TaskReturn)
SpecNames == InitNames /\ [][NextNames]_vars
SpecPublisher == InitPublisher /\ [][NextPublisher]_vars
SpecRest == InitRest /\ [][NextRest]_vars
SpecBackfill == InitBackfill /\ [][NextBackfill]_vars
SpecEvents == InitEvents /\ [][NextEvents]_vars
SpecStatus == InitStatus /\ [][NextStatus]_vars
SpecRoster == InitRoster /\ [][NextRoster]_vars

Init == InitWS \/ InitRepo \/ InitChunks \/ InitStream \/ InitSync \/ InitPool \/
    InitWindow \/ InitMain \/ InitNames \/ InitPublisher \/ InitRest \/ InitBackfill \/
    InitEvents \/ InitStatus \/ InitRoster
Next == NextWS \/ NextRepo \/ NextChunks \/ NextStream \/ NextSync \/ NextPool \/
    NextWindow \/ NextMain \/ NextNames \/ NextPublisher \/ NextRest \/ NextBackfill \/
    NextEvents \/ NextStatus \/ NextRoster
Spec == Init /\ [][Next]_vars

(***************************************************************************)
(* Claims about the streaming client, checked under SpecWS.                *)
(***************************************************************************)

\* C1: with max_reconnect_attempts = M >= 1, Start returns the exhausted error
\* exactly when M dials in a row have failed since the last successful dial: it
\* returns right after the M-th failure (so a run never holds more than M
\* consecutive failures: no further dial is issued), and never after fewer.
C1_ExhaustedExactlyAtMax ==
    maxReconnectAttempts >= 1 =>
        /\ consecFails <= maxReconnectAttempts
        /\ (wsResult = "exhausted") <=> (consecFails = maxReconnectAttempts)
        /\ (wsResult = "exhausted") => (wsPc = "done")

\* C1 witness: exhausted with M = 2 after an earlier connection was established
\* and lost, so the two failures counted are the ones since that connection.
C1_Witness ==
    /\ maxReconnectAttempts = 2
    /\ wsResult = "exhausted"
    /\ nextConn >= 1
    /\ readFailures >= 1

\* C2: the attempt counter equals the number of dial failures since the most
\* recent successful dial (or since Start began); a successful dial resets it and
\* a read failure leaves it alone.
C2_AttemptCountsConsecutiveDialFailures ==
    attempt = consecFails

\* C2 witness: one dial failed, a later dial succeeded, the connection was lost
\* by a read failure and the next dial failed: the counter reads 1, not 2.
C2_Witness ==
    /\ everDialFailed
    /\ nextConn >= 1
    /\ readFailures >= 1
    /\ attempt = 1
    /\ wsPc = "sleep"

\* The handler invocations that the frames read so far call for.
ExpectedDeliveries(rcv) ==
    LET keep == SelectSeq(rcv, LAMBDA r : r.frame.ok /\ r.frame.stream \in RegisteredStreams)
    IN  [i \in 1..Len(keep) |->
            [conn |-> keep[i].conn, stream |-> keep[i].frame.stream,
             data |-> keep[i].frame.data]]

\* C3 (state part): while no dial has failed, Close was not called and the context
\* is not cancelled, Start has not returned whatever the number of read failures;
\* after a read failure the failed socket is closed and the client holds none;
\* while reading, the client holds the newest socket and all older ones are
\* closed; every frame read on any connection, old or new, has been delivered to
\* the handler registered for its stream before the first connection.
C3_StateAfterReadFailures ==
    (~ctxCancelled /\ ~stopClosed /\ ~everDialFailed) =>
        /\ wsPc # "done"
        /\ wsResult = "none"
        /\ wsPc \in {"select", "dial", "cooldown"} =>
               (conn = Nil /\ closedSockets = 1..nextConn)
        /\ wsPc \in {"read", "blocked"} =>
               (conn = nextConn /\ closedSockets = 1..(nextConn - 1))
        /\ delivered = ExpectedDeliveries(received)

\* C3: read failures alone never terminate the client: the state part above
\* always holds, and, absent Close and cancellation, the cooldown entered after
\* a read failure is left only towards the top of Start's loop, which is left
\* only towards a new dial.
C3_ReadFailuresNeverTerminate ==
    /\ []C3_StateAfterReadFailures
    /\ [][(wsPc = "cooldown" /\ wsPc' # "cooldown" /\ ~ctxCancelled /\ ~stopClosed)
              => wsPc' = "select"]_vars
    /\ [][(wsPc = "select" /\ wsPc' # "select" /\ ~ctxCancelled /\ ~stopClosed)
              => wsPc' = "dial"]_vars

\* C3 witness: two read failures, each followed by a successful redial, and a
\* frame delivered on the connection dialled after the first failure.
C3_Witness ==
    /\ ~ctxCancelled /\ ~stopClosed /\ ~everDialFailed
    /\ readFailures >= 2
    /\ \E i \in 1..Len(delivered) : delivered[i].conn = 2

(***************************************************************************)
(* Claims about the candle handler, checked under SpecStream, and about    *)
(* the checkpoints under streaming and backfill, checked under SpecSync.   *)
(***************************************************************************)

\* C4: a candle event whose closed flag is false (or that does not decode) makes
\* the handler write nothing: the step that handles it leaves the store, the
\* bus, the latest-value cache and the checkpoints unchanged.
C4_InProgressEventWritesNothing ==
    [][(handled' = handled + 1 /\ last'.op = "kline" /\ ~last'.closed)
          => UNCHANGED <<store, bus, latest, syncStatus>>]_vars

\* C4 witness: an in-progress event has just been handled, after a closed one
\* was stored, published and cached.
C4_Witness ==
    /\ last.op = "kline"
    /\ ~last.closed
    /\ handled >= 2
    /\ store["klines"] # {}
    /\ \E t \in OpenTimes : bus[KlineChannel(Symbol, last.series)][t] > 0
    /\ latest[LatestKey(Symbol, last.series)] # Nil

\* C5 as stated: in every reachable state, every checkpoint of a candle series
\* that names a time (last_data_time is not the seed's 0) names the open time of
\* a candle row of that series that is in the store.
C5_CheckpointNamesCommittedCandle ==
    \A row \in syncStatus :
        row.last_data_time # 0 =>
            \E k \in store["klines"] :
                k.key = KlineKey(Symbol, row.interval, row.last_data_time)

\* C6 as stated: the last_data_time of the checkpoint of a series equals the
\* largest time passed by the checkpoint writers (the backfill's upsert and the
\* handler's update) that have returned nil for that series.
C6_LastDataTimeIsMaxPassed ==
    \A s \in Series :
        maxPassed[s] > 0 =>
            \A row \in CheckpointOf(syncStatus, s) : row.last_data_time = maxPassed[s]

\* C7 as stated: when the handler has just processed a closed candle event with
\* open time T and the store took its writes, the checkpoint of the series
\* exists and has last_data_time = T.
C7_CheckpointExistsAfterClosedEvent ==
    (last.op = "kline" /\ last.closed /\ last.storeOk) =>
        \E row \in CheckpointOf(syncStatus, last.series) : row.last_data_time = last.T

\* C8: for every candle key, after k >= 1 closed events of that key with the
\* store and the bus available, the store holds exactly one row of the key and
\* exactly k messages of the key were published on the channel of its series;
\* with no closed event there is no row and no message, however many
\* in-progress events of the key were handled.
C8_OneRowAndOneMessagePerClosedEvent ==
    \A s \in Series, t \in OpenTimes :
        LET key == KlineKey(Symbol, s, t)
            k == closedCount[s][t]
            rows == RowsOfKey(store["klines"], key)
            sent == bus[KlineChannel(Symbol, s)][t]
        IN  /\ (k >= 1 /\ key \notin failedKeys) => (Cardinality(rows) = 1 /\ sent = k)
            /\ k = 0 => (rows = {} /\ sent = 0)

\* C8 witness: the same closed candle was handled twice, store and bus
\* available, and an in-progress event of the same key has just been handled.
C8_Witness ==
    /\ last.op = "kline"
    /\ ~last.closed
    /\ last.T \in OpenTimes
    /\ closedCount[last.series][last.T] = 2
    /\ KlineKey(Symbol, last.series, last.T) \notin failedKeys
    /\ bus[KlineChannel(Symbol, last.series)][last.T] = 2

(***************************************************************************)
(* Claims about the series repositories, checked under SpecRepo (calls on  *)
(* single records) and SpecChunks (one long batch).                        *)
(***************************************************************************)

\* The call that has just returned nil was Insert(r) or BatchInsert([r]).
SingleRecordDone ==
    /\ bPc = "done"
    /\ bResult = "nil"
    /\ Len(bOp.batch) = 1

\* The same record was applied by the previous successful call as well.
AppliedTwice ==
    /\ SingleRecordDone
    /\ Len(prevOp.batch) = 1
    /\ prevOp.batch[1].key = bOp.batch[1].key
    /\ prevOp.batch[1].cols = bOp.batch[1].cols

\* A record whose decimals have at most eight places and whose count fits 32 bits.
Representable(c) == ToDecimal8(c.price) = c.price /\ c.trades.hi = 0

C9_OverwriteWitness ==
    /\ SingleRecordDone
    /\ \E old \in prevStore[TableOf(bOp.repo)] :
          old.key = bOp.batch[1].key /\ old.cols # Bound(bOp.batch[1].cols)

\* The transactions a BatchInsert of n records is to run: consecutive chunks of
\* at most maxBatchSize records, in input order.
ExpectedChunk(i, n) == [lo |-> (i - 1) * maxBatchSize, hi |-> Min(i * maxBatchSize, n)]
Ceil(n, d) == (n + d - 1) \div d

\* C10 as stated: on every repository, candles and tickers alike, no transaction
\* of a BatchInsert holds more than 100 records; the transactions run so far are
\* the first consecutive chunks of the input, in order; and a call that returned
\* nil ran exactly ceil(n/100) of them, one when n <= 100.
C10_NoTransactionOverMaxBatchSize ==
    (bOp.kind = "BatchInsert") =>
        LET n == Len(bOp.batch)
        IN  /\ \A i \in 1..Len(txLog) :
                  /\ txLog[i].hi - txLog[i].lo <= maxBatchSize
                  /\ txLog[i].lo = ExpectedChunk(i, n).lo
                  /\ txLog[i].hi = ExpectedChunk(i, n).hi
            /\ (bPc = "done" /\ bResult = "nil") => Len(txLog) = Ceil(n, maxBatchSize)

\* The same statement for the repositories that have the chunked path.
C10_ChunkedRepositories ==
    (bOp.repo # "ticker") => C10_NoTransactionOverMaxBatchSize

(***************************************************************************)
(* Claims about the chunks of a batch, checked under SpecChunks.           *)
(***************************************************************************)

\* The keys of the first k records of the batch of the call.
KeysUpTo(k) == {bOp.batch[i].key : i \in 1..k}
StoredKeys(rows) == {row.key : row \in rows}

\* C11: when a chunk's transaction fails, or cancellation is seen in the delay
\* before a chunk, BatchInsert returns that error at once: every chunk before it
\* was committed and stays committed, no record of the failed chunk or of a later
\* one is stored, and no transaction is begun after the failed one.
C11_FailedChunkStopsTheBatch ==
    LET n == Len(bOp.batch)
        table == TableOf(bOp.repo)
        m == Len(txLog)
    IN  (bOp.kind = "BatchInsert") =>
          /\ \A i \in 1..m : i < m => txLog[i].outcome = "ok"
          /\ (m > 0 /\ txLog[m].outcome # "ok") =>
                (bPc = "done" /\ bResult = "error" /\ txLog[m].lo = bIdx)
          /\ (bPc = "done" /\ bResult = "error") => (m > 0 /\ txLog[m].outcome # "ok")
          /\ (bPc = "done" /\ bResult = "cancelled") =>
                (m > 0 /\ txLog[m].outcome = "ok" /\ txLog[m].hi = bIdx /\ bIdx < n)
          /\ (bPc = "done" /\ bResult \in {"error", "cancelled"}) =>
                /\ StoredKeys(store[table]) =
                       StoredKeys(prevStore[table]) \cup KeysUpTo(bIdx)
                /\ \A t \in Tables \ {table} : store[t] = prevStore[t]

\* C11 witness: a batch of three chunks whose first chunk was committed and
\* whose second chunk failed: the call has returned the error, the first chunk's
\* records are stored and the third chunk was never begun.
C11_Witness ==
    /\ bPc = "done" /\ bResult = "error"
    /\ Len(bOp.batch) > 2 * maxBatchSize
    /\ Len(txLog) = 2
    /\ txLog[2].outcome = "insertFail"
    /\ Cardinality(store[TableOf(bOp.repo)]) = maxBatchSize

\* C11 witness of the cancellation: the context was cancelled after the first
\* chunk, and the call returned in the delay before the second.
C11_CancelWitness ==
    /\ bPc = "done" /\ bResult = "cancelled"
    /\ Len(txLog) = 1
    /\ Cardinality(store[TableOf(bOp.repo)]) = maxBatchSize

\* C12 as stated: in every repository's batch transaction the rollback is
\* invoked exactly when the transaction began and its commit did not succeed,
\* and never after a successful commit.
C12_RollbackExactlyWhenNotCommitted ==
    \A i \in 1..Len(txLog) :
        txLog[i].rollback <=> txLog[i].outcome \in {"insertFail", "commitFail"}

\* The same statement for the repositories whose deferred rollback is gated by
\* the committed flag.
C12_GatedRepositories ==
    (bOp.repo # "ticker") => C12_RollbackExactlyWhenNotCommitted

(***************************************************************************)
(* Claims about the backfill coordinator, checked under SpecPool.          *)
(***************************************************************************)

\* C13: during SyncMissingData the workers that hold a semaphore slot (in the
\* stagger delay or inside syncKlinesForSymbol) are never more than sync.workers,
\* over all pairs; and every worker that has returned has given its slot back,
\* whichever way it returned, so the tokens in the semaphore are exactly the
\* holders and none is left when SyncMissingData returns.
C13_AtMostWorkersHoldASlot ==
    /\ Cardinality(Holders) <= poolWorkers
    /\ semaphore = Cardinality(Holders)
    /\ (poolPc = "returned") => semaphore = 0

\* C13 witness: a worker was cancelled in its stagger delay and has returned,
\* and the slot it gave back is held again: every slot is taken while another
\* worker still waits for one.
C13_Witness ==
    /\ \E p \in Pairs : pairPc[p] = "cancelled"
    /\ \E q \in Pairs : pairPc[q] = "spawned"
    /\ poolWorkers >= 1
    /\ Cardinality(Holders) = poolWorkers

\* The pairs whose syncKlinesForSymbol returned an error.
FailedPairs == {p \in Pairs : pairPc[p] = "error"}
Occurrences(seq, p) == Cardinality({i \in DOMAIN seq : seq[i] = p})

\* C14: a failure of one pair ends no other worker: SyncMissingData returns only
\* when every spawned worker has run to its end; the errors it has collected by
\* then are those of the failed pairs, each exactly once; and it returns nil
\* whatever the number of failed pairs (its only error return is the failed
\* symbol query, before any worker exists).
C14_FailuresCollectedAndNilReturned ==
    /\ (poolPc = "wait") =>
          \A p \in Pairs : Occurrences(errChan, p) = IF p \in FailedPairs THEN 1 ELSE 0
    /\ (poolPc = "returned" /\ Spawned # {}) =>
          /\ Exited = Spawned
          /\ poolResult = "nil"
          /\ \A p \in Pairs : Occurrences(syncErrors, p) = IF p \in FailedPairs THEN 1 ELSE 0
          /\ Len(syncErrors) = Cardinality(FailedPairs)
    /\ (poolPc = "returned" /\ poolResult # "nil") => Spawned = {}

\* C14 witness: SyncMissingData has returned nil after two pairs failed and
\* another pair's worker ran to a successful end.
C14_Witness ==
    /\ poolPc = "returned" /\ poolResult = "nil"
    /\ Cardinality(FailedPairs) = 2
    /\ \E q \in Pairs : pairPc[q] = "nil"
    /\ Len(syncErrors) = 2

(***************************************************************************)
(* Claims about the checkpoints of the backfill, checked under SpecSync.   *)
(***************************************************************************)

\* A backfill worker has just returned an error from its batch.
BackfillFailed == last.op = "backfillInsert" /\ ~last.storeOk
\* A checkpoint writer has just succeeded for a series: the handler of a closed
\* candle, or the backfill's upsert.
CheckpointEventSucceeded ==
    \/ last.op = "kline" /\ last.closed /\ last.storeOk
    \/ last.op = "backfillUpsert" /\ last.storeOk

\* C15 as stated: when the backfill of a pair fails, the pair's checkpoint has
\* status "error" and an error message; a later successful event of the series
\* makes it "active" and clears the message.
C15_FailedBackfillMarksCheckpointError ==
    /\ BackfillFailed =>
          \A row \in CheckpointOf(syncStatus, last.series) :
              row.status = "error" /\ row.error_message # Nil
    /\ CheckpointEventSucceeded =>
          \A row \in CheckpointOf(syncStatus, last.series) :
              row.status = "active" /\ row.error_message = Nil

\* The second half of C15 alone: a successful event leaves the checkpoint
\* active, without an error message.
C15_SuccessLeavesCheckpointActive ==
    CheckpointEventSucceeded =>
        \A row \in CheckpointOf(syncStatus, last.series) :
            row.status = "active" /\ row.error_message = Nil

(***************************************************************************)
(* Claims about the backfill window, checked under SpecWindow.             *)
(***************************************************************************)

\* C16 as stated: the window starts at the later of the checkpoint's
\* last_data_time and now - max_sync_hours, and at now - max_sync_hours when
\* there is no checkpoint; so no request for candles has a start time older than
\* now - max_sync_hours.
C16_WindowNeverOlderThanMaxSyncHours ==
    /\ (winPc \in {"loop", "nil"} \/ winRequests # {}) =>
          winStart = StartTimeClamped(winCheckpoint, winNow, winMaxSyncHours)
    /\ \A t \in winRequests : t >= winNow - winMaxSyncHours

\* What holds instead: with a checkpoint whose last_data_time is not zero the
\* window starts at last_data_time, however old, and no request starts before
\* the window's start.
C16_WindowStartsAtCheckpoint ==
    /\ (winPc \in {"loop", "nil"} \/ winRequests # {}) =>
          /\ (winCheckpoint.exists /\ winCheckpoint.last_data_time # 0) =>
                winStart = winCheckpoint.last_data_time
          /\ ~(winCheckpoint.exists /\ winCheckpoint.last_data_time # 0) =>
                winStart = winNow - winMaxSyncHours
    /\ \A t \in winRequests : t >= winStart

(***************************************************************************)
(* Claims about the supervisor, checked under SpecMain.                    *)
(***************************************************************************)

\* The positions of a stage in the trace of run.
StagesAt(stages) == {i \in DOMAIN mainTrace : mainTrace[i] \in stages}

\* C17 as stated: with sync.enabled, the backfill coordinator is invoked after
\* the roster was published and before the stream service is started, so the
\* stream service is never started on a run in which the backfill was enabled
\* and not invoked.
C17_BackfillBeforeStream ==
    mainSyncEnabled =>
        \A k \in StagesAt({"stream"}) :
            \E i \in StagesAt({"roster", "rosterFailed"}), j \in StagesAt({"backfill"}) :
                i < j /\ j < k

\* What holds instead: run goes from the roster straight to the stream service,
\* whatever sync.enabled is.
C17_StreamFollowsRoster ==
    \A k \in StagesAt({"stream"}) :
        k = 2 /\ mainTrace[1] \in {"roster", "rosterFailed"}

\* C18 as stated: on shutdown the store pool and the bus client are released
\* only after the streaming task has returned, so no handler tries a store write
\* or a publish on a released resource.
C18_ReleaseAfterStreamingTaskReturned ==
    /\ (mainStopped /\ (mainDb = "closed" \/ mainRedis = "closed")) =>
          taskPc = "returned"
    /\ lateAttempts = {}

\* C19: with zero active symbols in the store, run never publishes the roster,
\* never runs the backfill and never starts the stream service; when its symbol
\* query succeeded it returns the error "no active symbols configured"; and
\* whatever run returned, the process exits with code 1.
C19_NoSymbolsStopsTheRun ==
    (mainActiveSymbols = 0) =>
        /\ mainTrace = <<>>
        /\ taskPc = "none"
        /\ mainPc \in {"start", "symbols", "returned", "exited"}
        /\ (mainPc \in {"returned", "exited"}) =>
              mainResult \in {"dbError", "migrationError", "redisError", "pingError",
                              "failed to get active symbols",
                              "no active symbols configured"}
        /\ (mainPc \in {"returned", "exited"}
              /\ mainResult \notin {"dbError", "migrationError", "redisError",
                                    "pingError", "failed to get active symbols"}) =>
              (mainResult = "no active symbols configured"
                  /\ mainDb = "closed" /\ mainRedis = "closed")
        /\ (mainPc = "exited") => mainExit = 1

\* C19 witness: the process has exited with code 1 after run returned "no active
\* symbols configured", with nothing published and no stream started.
C19_Witness ==
    /\ mainActiveSymbols = 0
    /\ mainPc = "exited"
    /\ mainResult = "no active symbols configured"
    /\ mainExit = 1
    /\ mainTrace = <<>>

(***************************************************************************)
(* Claims about the stream names, checked under SpecNames.                 *)
(***************************************************************************)

\* The upper-case letter of a letter, and the symbol S in lower case as the
\* exchange names it: the same letters, none of them upper-case.
UpperOf(c) == IF c = "b" THEN "B" ELSE IF c = "t" THEN "T" ELSE c
IsLowerOf(text, symbol) ==
    /\ Len(text) = Len(symbol)
    /\ \A i \in 1..Len(symbol) :
          text[i] \in LowerLetters /\ UpperOf(text[i]) = UpperOf(symbol[i])

\* C20: for every list of symbols and intervals, the names BuildStreamNames
\* returns are, symbol by symbol in input order, one name lower(S)@kline_I per
\* interval I, in input order, then lower(S)@ticker, lower(S)@depth@1000ms and
\* lower(S)@aggTrade, and nothing else: |symbols| * (|intervals| + 3) names.
C20_StreamNamesPerSymbol ==
    (namesPc = "returned") =>
        LET k == Len(namesIntervals)
            per == k + 3
        IN  /\ Len(streams) = Len(namesSymbols) * per
            /\ streams = BuildStreamNames(namesSymbols, namesIntervals)
            /\ \A s \in 1..Len(namesSymbols) :
                  LET S == namesSymbols[s]
                      n == Len(S)
                      at(j) == streams[(s - 1) * per + j]
                  IN  /\ \A i \in 1..k :
                            /\ Len(at(i)) = n + 2
                            /\ IsLowerOf(SubSeq(at(i), 1, n), S)
                            /\ at(i)[n + 1] = "@kline_"
                            /\ at(i)[n + 2] = namesIntervals[i]
                      /\ \A j \in 1..3 :
                            /\ Len(at(k + j)) = n + 1
                            /\ IsLowerOf(SubSeq(at(k + j), 1, n), S)
                      /\ at(k + 1)[n + 1] = "@ticker"
                      /\ at(k + 2)[n + 1] = "@depth@1000ms"
                      /\ at(k + 3)[n + 1] = "@aggTrade"

\* C20 witness: the names of two symbols, one of them written in upper case,
\* and two intervals were returned: ten names.
C20_Witness ==
    /\ namesPc = "returned"
    /\ Len(namesSymbols) = 2
    /\ Len(namesIntervals) = 2
    /\ \E s \in 1..2 : namesSymbols[s] = <<"B", "T">>
    /\ Len(streams) = 10

(***************************************************************************)
(* Claims about the publisher, checked under SpecPublisher.                *)
(***************************************************************************)

\* C21: for the candle, ticker and depth publishes: a call whose publish on the
\* channel fails returns an error and leaves the latest cache (and the channel)
\* as they were; a call whose publish goes through and whose cache write fails
\* returns nil, with the message on the channel and the cache as it was.
C21_CacheIsBestEffort ==
    [][(pubLast'.n # pubLast.n) =>
          LET call == pubLast'
          IN  /\ (call.parsed /\ ~call.publishOk) =>
                    /\ call.result # "nil"
                    /\ pubLatest' = pubLatest
                    /\ pubBus' = pubBus
              /\ (call.parsed /\ call.publishOk /\ ~call.cacheOk) =>
                    /\ call.result = "nil"
                    /\ pubLatest' = pubLatest
                    /\ pubBus' = [pubBus EXCEPT ![call.kind][call.T] = @ + 1]
              /\ (call.parsed /\ call.publishOk /\ call.cacheOk) =>
                    /\ call.result = "nil"
                    /\ pubLatest' = [pubLatest EXCEPT ![call.kind] = call.T]
       ]_vars

\* C21 witness: a depth publish went through, its cache write failed, and the
\* call returned nil: the message is on the channel and the key is not set.
C21_Witness ==
    /\ pubLast.kind = "depth"
    /\ pubLast.parsed /\ pubLast.publishOk /\ ~pubLast.cacheOk
    /\ pubLast.result = "nil"
    /\ pubBus["depth"][pubLast.T] = 1
    /\ pubLatest["depth"] = Nil

\* C21 witness of the failed publish: a ticker publish failed after an earlier
\* one had set the key: the call returned the error and the key is the older one.
C21_FailedPublishWitness ==
    /\ pubLast.kind = "ticker"
    /\ ~pubLast.publishOk
    /\ pubLast.result = "publishError"
    /\ pubLatest["ticker"] # Nil
    /\ pubLatest["ticker"] # pubLast.T

(***************************************************************************)
(* Claims about the REST client's rate limiter, checked under SpecRest.    *)
(***************************************************************************)

\* The most requests issued in a 60-second window: restR + 1 consecutive ticks,
\* both ends of the window counted.
WindowsWithin(limit) ==
    \A t \in Ticks : IssuedIn(restIssued, t, Min(t + restR, MaxTicks)) <= limit

\* A call has just ended with a cancellation error.
CancelledStep ==
    /\ restLast' # restLast
    /\ restLast'.outcome \in {"cancelled", "cancelledWaiting"}

\* C22: every request takes one token of a bucket of rest_rate_limit = R tokens
\* that gains R tokens per 60 seconds, so no 60-second window holds more than 2R
\* requests; and a call whose context is cancelled, before or while it waits for
\* a token, issues no request.
C22_AtMostTwiceTheLimitPerWindow ==
    /\ [](WindowsWithin(2 * restR) /\ restTokens <= restR)
    /\ [][CancelledStep => restIssued' = restIssued]_vars

\* C22 witness: a window holds exactly 2R requests, with R >= 2: the burst and
\* the tokens gained since; and a waiting call was cancelled.
C22_Witness ==
    /\ restR >= 2
    /\ \E t \in Ticks : IssuedIn(restIssued, t, Min(t + restR, MaxTicks)) = 2 * restR

\* C22 witness of the cancellation: a call was cancelled while it waited for a
\* token, after the burst had been used up.
C22_CancelWitness ==
    /\ restLast.outcome = "cancelledWaiting"
    /\ restR >= 1
    /\ IssuedIn(restIssued, 0, MaxTicks) >= restR

(***************************************************************************)
(* Claims about the read loop, the ping tasks and the ways Start ends,     *)
(* checked under SpecWS and, for what must happen in the end, FairSpecWS.  *)
(***************************************************************************)

\* The frame the step has read.
FrameJustRead == received'[Len(received')]

\* C23: a frame whose stream has a registered handler is handed, data unchanged,
\* to that handler and to no other; a frame of an unregistered stream and a frame
\* that does not decode invoke no handler; in both cases, and when the handler
\* returns an error, the read loop goes on to the next frame and the connection
\* stays as it is.
C23_FrameGoesToItsHandlerOnly ==
    /\ [][(Len(received') > Len(received)) =>
            /\ delivered' =
                  IF FrameJustRead.frame.ok /\ FrameJustRead.frame.stream \in handlers
                  THEN Append(delivered, [conn |-> FrameJustRead.conn,
                                          stream |-> FrameJustRead.frame.stream,
                                          data |-> FrameJustRead.frame.data])
                  ELSE delivered
            /\ wsPc' = IF delivered' = delivered THEN "read" ELSE "handling"
            /\ conn' = conn
            /\ closedSockets' = closedSockets]_vars
    /\ [][(wsPc = "handling" /\ wsPc' # wsPc) =>
            /\ wsPc' \in {"read", "handlerError"}
            /\ conn' = conn
            /\ closedSockets' = closedSockets]_vars
    /\ [][(wsPc = "handlerError" /\ wsPc' # wsPc) =>
            /\ wsPc' = "read"
            /\ conn' = conn
            /\ closedSockets' = closedSockets]_vars

\* C23 witness: an undecodable frame was skipped, the next frame went to the
\* handler of its stream, the handler has returned an error, and the connection
\* is still open.
C23_Witness ==
    /\ wsPc = "handlerError"
    /\ Len(received) = 2
    /\ ~received[1].frame.ok
    /\ Len(delivered) = 1
    /\ delivered[1].stream = received[2].frame.stream
    /\ conn # Nil
    /\ conn \notin closedSockets

\* C23 witness: a frame of a stream without a handler was read and the loop is
\* back at its top with the connection open.
C23_UnregisteredWitness ==
    /\ wsPc = "read"
    /\ Len(received) = 1
    /\ received[1].frame.ok
    /\ received[1].frame.stream = UnknownStream
    /\ delivered = <<>>
    /\ conn # Nil
    /\ conn \notin closedSockets

\* C24: the handlers are invoked in the order in which the frames were received,
\* on one connection and across a reconnect, and one at a time: an invocation
\* begins only from the read loop, which then waits for the handler to return
\* before it reads the next frame.
C24_HandlersRunInFrameOrderOneAtATime ==
    /\ [](/\ delivered = ExpectedDeliveries(received)
          /\ \A i, j \in 1..Len(delivered) : i < j => delivered[i].conn <= delivered[j].conn)
    /\ [][(delivered' # delivered) =>
            /\ wsPc = "blocked"
            /\ wsPc' = "handling"
            /\ Len(delivered') = Len(delivered) + 1]_vars
    /\ [][(wsPc = "handling") => (received' = received /\ delivered' = delivered)]_vars

\* C24 witness: a second handler runs, for a frame of the connection dialled
\* after a reconnect, the first having handled a frame of the first connection.
C24_Witness ==
    /\ wsPc = "handling"
    /\ Len(delivered) = 2
    /\ delivered[1].conn = 1
    /\ delivered[2].conn = 2

\* C25: at most one ping task runs at any time: the ping task of a connection is
\* gone when that connection has been closed after a read error, so that there
\* is one ping task, not more, after any number of reconnects.
C25_AtMostOnePingTask ==
    pingTasks <= 1

\* Start returns in this step.
StartReturns == wsPc # "done" /\ wsPc' = "done"

\* C26: once Close() was called, the context not being cancelled, Start returns
\* nil, whatever it was doing when Close() was called.
C26_StartReturnsNilAfterClose ==
    [][(StartReturns /\ stopClosed /\ ~ctxCancelled) => wsResult' = "nil"]_vars

\* C27: once the context is cancelled Start returns in the end, whatever it was
\* doing, a read blocked on a healthy idle connection included.
C27_StartReturnsAfterCancel ==
    ctxCancelled ~> (wsPc = "done")

(***************************************************************************)
(* Claims about the handlers' context and about the end of the streaming   *)
(* client, checked under SpecMain and FairSpecMain.                        *)
(***************************************************************************)

\* C28: the store write, the publish and the checkpoint update of a handler run
\* under the root context: a handler step begun after the root context was
\* cancelled fails and changes neither the store nor the bus.
C28_NoHandlerEffectAfterCancellation ==
    lateEffects = {}

\* C29: when the streaming client has given up (Start returned the exhausted
\* error), the process releases its resources and exits with code 1 in the end.
C29_ExhaustedStreamEndsTheProcess ==
    (taskPc = "exhausted") ~>
        (mainPc = "exited" /\ mainExit = 1 /\ mainDb = "closed" /\ mainRedis = "closed")

(***************************************************************************)
(* Claims about the windows of the backfill, checked under SpecWindow.     *)
(***************************************************************************)

\* The least number of spans that cover a gap.
CeilDiv(gap, span) == IF gap <= 0 THEN 0 ELSE (gap + span - 1) \div span

\* C30: the backfill requests consecutive windows: the first starts at the start
\* of the gap, each ends one span (batch_size times the interval's duration)
\* after its start or at the end of the gap, whichever is earlier, and the next
\* starts where it ended; no window starts at or after the end of the gap; no
\* request follows an empty response or an error; the requests are at most the
\* number of spans that cover the gap, and exactly one when a run that returns
\* nil had a gap of at most one span.
C30_ConsecutiveWindowsBoundedRequests ==
    /\ [](/\ \A i \in 1..Len(winWindows) :
                /\ winWindows[i].s = IF i = 1 THEN winStart ELSE winWindows[i - 1].e
                /\ winWindows[i].e = Min(winWindows[i].s + winBatchHours, winNow)
                /\ winWindows[i].s < winNow
          /\ Len(winWindows) <= CeilDiv(winNow - winStart, winBatchHours)
          /\ (winPc = "nil" /\ winNow - winStart > 0 /\ winNow - winStart <= winBatchHours)
                => Len(winWindows) = 1)
    /\ [][(winPc \in {"nil", "error"}) => winWindows' = winWindows]_vars

\* C30 witness: a run that returned nil after as many requests as spans cover the
\* gap, more than one, the last window cut at the end of the gap.
C30_Witness ==
    /\ winPc = "nil"
    /\ Len(winWindows) >= 2
    /\ Len(winWindows) = CeilDiv(winNow - winStart, winBatchHours)
    /\ winWindows[Len(winWindows)].e = winNow
    /\ winWindows[Len(winWindows)].s + winBatchHours > winNow

\* C30 witness: a gap of one span or less, crossed with one request.
C30_OneRequestWitness ==
    /\ winPc = "nil"
    /\ winCurrent = winNow
    /\ winNow - winStart > 0
    /\ winNow - winStart <= winBatchHours
    /\ Len(winWindows) = 1

(***************************************************************************)
(* Claims about one pair's backfill, checked under SpecBackfill.           *)
(***************************************************************************)

\* C31: a malformed row of a candles response (wrong arity, or a field of the
\* wrong type) is skipped: the decoding goes on to the insert of the other rows,
\* and neither the worker nor the process crashes.
C31_MalformedRowIsSkipped ==
    /\ bfPc # "panic"
    /\ (bfRun.result = "decoded") => bfPc = "insert"

\* The checkpoint step of a batch has just written the checkpoint.
CheckpointWritten == bfRun' # bfRun /\ bfRun'.result = "checkpointed"

InsertFailed == bfRun' # bfRun /\ bfRun'.result = "insertError"

\* C33: when BatchInsert returns an error the pair's backfill returns an error,
\* makes no further request and leaves the checkpoint as it was before the
\* batch, whatever chunks of the batch were committed: the checkpoint does not
\* lie beyond the start of the failed batch, which a next run fetches again.
C33_FailedInsertKeepsCheckpoint ==
    /\ [][InsertFailed => (bfPc' = "error" /\ bfCheckpoint' = bfRun.before)]_vars
    /\ [][(bfPc = "error") =>
            (bfRun'.requests = bfRun.requests /\ bfCheckpoint' = bfCheckpoint)]_vars
    /\ []((bfPc = "error" /\ bfRun.result = "insertError") =>
              /\ bfCheckpoint = bfRun.before
              /\ bfCheckpoint.last_data_time <= bfRun.base)

\* C33 witness: the second batch failed after its first chunk was committed: the
\* store holds rows beyond the checkpoint, which names the first batch's last row.
C33_Witness ==
    /\ bfPc = "error"
    /\ bfRun.result = "insertError"
    /\ bfRun.requests = 2
    /\ bfCheckpoint.last_data_time = bfRun.base
    /\ bfRun.base > 0
    /\ bfStored = bfRun.base + maxBatchSize

(***************************************************************************)
(* Claims about the registration of the handlers, checked under SpecNames. *)
(***************************************************************************)

\* The handlers registered for a stream name.
RegisteredFor(stream) == {h \in namesHandlers : h.stream = stream}

\* The kind of handler the last piece of a name calls for.
KindOfPiece(piece) ==
    CASE piece = "@ticker" -> "ticker"
      [] piece = "@depth@1000ms" -> "depth"
      [] piece = "@aggTrade" -> "aggTrade"
      [] OTHER -> "kline"

\* C34: when the streaming client is started, and from the registration on, every
\* name BuildStreamNames produced for the symbols has exactly one handler, of the
\* kind of the name (candle, ticker, depth, trade), for the symbol of the name
\* written in upper case and, for a candle stream, its interval; no handler is
\* registered for another name; before the registration the client is not started.
C34_OneHandlerPerStreamName ==
    /\ (namesPc = "started") => namesHandlers # {}
    /\ (namesPc \in {"registered", "started"}) =>
          LET per == Len(namesIntervals) + 3
          IN  /\ \A h \in namesHandlers : \E i \in DOMAIN streams : h.stream = streams[i]
              /\ \A s \in 1..Len(namesSymbols), j \in 1..per :
                    LET name == streams[(s - 1) * per + j]
                        piece == name[Len(name)]
                    IN  /\ Cardinality(RegisteredFor(name)) = 1
                        /\ \A h \in RegisteredFor(name) :
                              /\ h.symbol = [i \in DOMAIN namesSymbols[s] |->
                                                UpperOf(namesSymbols[s][i])]
                              /\ h.kind = IF j <= Len(namesIntervals) THEN "kline"
                                          ELSE KindOfPiece(piece)
                              /\ h.interval = IF j <= Len(namesIntervals)
                                              THEN namesIntervals[j] ELSE ""

\* C34 witness: the client was started with the handlers of two symbols and two
\* intervals: a depth handler and candle handlers of both intervals among them.
C34_Witness ==
    /\ namesPc = "started"
    /\ Len(namesSymbols) = 2
    /\ namesSymbols[1] # namesSymbols[2]
    /\ Len(namesIntervals) = 2
    /\ namesIntervals[1] # namesIntervals[2]
    /\ \E h \in namesHandlers : h.kind = "depth" /\ h.symbol = <<"B", "T">>
    /\ Cardinality({h \in namesHandlers : h.kind = "kline"}) = 4

(***************************************************************************)
(* Claims about the event handlers, checked under SpecEvents.              *)
(***************************************************************************)

\* A decodable closed candle or ticker one numeric field of which is not a
\* decimal number.
UnparsableNumber ==
    /\ evEvent.jsonOk
    /\ evEvent.kind \in {"kline", "ticker"}
    /\ evEvent.kind = "kline" => evEvent.closed
    /\ ParseFloat(evEvent.price).err \/ ParseFloat(evEvent.quantity).err

\* C35: the handler of a closed candle or of a ticker with a numeric field that
\* is not a parsable decimal returns an error and has written nothing to the
\* store, published nothing and not updated the checkpoint.
C35_UnparsableNumberIsADecodeError ==
    (UnparsableNumber /\ evPc = "returned") =>
        /\ evRun.result = "error"
        /\ evRun.writes = <<>>
        /\ evRun.publishes = <<>>
        /\ ~evRun.touched

\* C37: every envelope published for a depth event carries the bids and the asks
\* of the event as typed price levels: as many, in the same order, with the same
\* prices and quantities.
C37_DepthEnvelopeCarriesTheLevels ==
    evEvent.kind = "depth" =>
        \A i \in DOMAIN evRun.publishes :
            /\ evRun.publishes[i].bids = TypedLevels(evEvent.bids)
            /\ evRun.publishes[i].asks = TypedLevels(evEvent.asks)

(***************************************************************************)
(* Claims about the checkpoint repository, checked under SpecStatus.       *)
(***************************************************************************)
AbsentInterval == [present |-> FALSE, text |-> ""]
EmptyInterval == [present |-> TRUE, text |-> ""]

\* C36: after an upsert of a checkpoint with the interval absent, the call has
\* returned no error, and a get with the interval absent and a get with the empty
\* text as interval both return the checkpoint upserted.
C36_AbsentIntervalIsTheEmptyInterval ==
    (ssLast.op = "upsert" /\ ssLast.arg = AbsentInterval) =>
        /\ ~ssLast.err
        /\ GetSyncStatus(ssRows, ssLast.key, AbsentInterval) = ssLast.row
        /\ GetSyncStatus(ssRows, ssLast.key, EmptyInterval) = ssLast.row

(***************************************************************************)
(* Claims about the termination of the coordinator, checked under          *)
(* FairSpecPool.                                                           *)
(***************************************************************************)

\* C38: with sync.workers >= 1, whatever the number of pairs, SyncMissingData
\* returns in the end, also when pairs fail and when the context is cancelled;
\* and a worker that is to send its error never finds the error channel full.
C38_SyncMissingDataReturns ==
    /\ [](\A p \in Pairs : pairPc[p] = "sync" =>
             Len(errChan) < ErrChanCapacity(Cardinality(Spawned)))
    /\ (poolWorkers >= 1) ~> (poolPc = "returned")

\* C38 witness: SyncMissingData has returned with one slot for several pairs, all
\* of which were spawned, two of which failed, and the context cancelled.
C38_Witness ==
    /\ poolPc = "returned"
    /\ poolWorkers = 1
    /\ Cardinality(Spawned) = MaxPairs
    /\ Spawned = Exited
    /\ Len(syncErrors) >= 2
    /\ poolCtxDone

(***************************************************************************)
(* Claims about Close() racing with Start, checked under SpecWS.           *)
(***************************************************************************)

\* C39: once Close() and Start have both returned, the client holds no
\* connection and every socket that was dialled has been closed.
C39_NoOpenConnectionAfterCloseAndStart ==
    (wsPc = "done" /\ closePc = "closed") =>
        /\ conn = Nil
        /\ \A c \in 1..nextConn : c \in closedSockets

(***************************************************************************)
(* Claims about the roster of active symbols, checked under SpecRoster.    *)
(***************************************************************************)

\* C40: while the process is streaming, the roster written at startup is
\* readable under its key, with the symbols written.
C40_RosterStaysReadableWhileStreaming ==
    (rsPc = "streaming" /\ rsWritten) => (rsKey.exists /\ rsKey.value = rsSymbols)
=====
